---- MODULE Spec2Model ----
(***************************************************************************)
(* A model of the generation rule engine of seo-writer-buddy: the keyword  *)
(* research orchestrator (variant generator + metrics synthesizer over the *)
(* keywords table), the competitor analysis orchestrator (cache-aside over *)
(* the competitors table), the outline template engine, the optimization   *)
(* rule engine and the suggestion status tracker.                          *)
(*                                                                         *)
(* Conventions.                                                            *)
(*  - A string is a sequence of atoms. The atom " " is the space character *)
(*    and every other atom is a non-empty run of non-space characters, so  *)
(*    String.split(' ') and Array.join(' ') act on atoms exactly as on     *)
(*    characters.                                                          *)
(*  - Math.random() is a draw from a stream: a stream is a periodic        *)
(*    sequence of levels, a level is the drawn number times 10000.         *)
(*  - A number with decimals is held in thousandths; a numeric(_, 2)      *)
(*    column holds it in hundredths.                                       *)
(*  - Where a rule looks for a keyword inside a text, the texts are made   *)
(*    so that the keyword occurs in them as whole atoms only.              *)
(*  - null is the text Null; the empty text is the empty sequence.         *)
(*  - Tables start empty. SpecKw, SpecComp, SpecOutline, SpecEngine run    *)
(*    one component each; SpecPipeline runs generated outlines through     *)
(*    the rule engine, SpecCore runs the operations of all tables in any   *)
(*    order, and SpecRace runs two concurrent calls step by step.          *)
(*  - One clock, now, is read by new Date() and by defaultNow(); it never  *)
(*    runs backwards.                                                      *)
(***************************************************************************)
EXTENDS Integers, Sequences, FiniteSets, TLC

VARIABLES
    keywords,      \* keywordsTable: sequence of rows in insertion order
    kwOp,          \* the last keyword operation: "none", "research", "create"
    kwInput,       \* the input of the last performKeywordResearch call
    kwResult,      \* the rows returned by the last keyword operation
    nResearch,     \* performKeywordResearch calls so far
    nCreate,       \* createKeyword calls so far
    competitors,   \* competitorsTable: sequence of rows in insertion order
    compOp,        \* the last competitor operation: "none", "analyze", "create"
    compInput,     \* the input of the last performCompetitorAnalysis call
    compResult,    \* the rows returned by the last competitor operation
    nGenerated,    \* runs of the mock generation branch so far
    nAnalyze,      \* performCompetitorAnalysis calls so far
    nCompCreate,   \* createCompetitor calls so far
    outlines,      \* contentOutlinesTable: sequence of rows in insertion order
    now,           \* the clock read by defaultNow(): one tick per operation
    fnPc,          \* position of a pure-function run: "idle", "ready", "done"
    fnArgs,        \* the arguments a pure function is applied to
    fnResult,      \* the value it returned
    suggestions,   \* optimizationSuggestionsTable: rows in insertion order
    op,            \* the last outline or suggestion operation, "none" at first
    opInput,       \* its input
    opResult,      \* its outcome: [ok, isNull, out]
    nOps,          \* outline and suggestion operations so far
    calls          \* the calls in flight of two concurrent clients

kwVars == <<keywords, kwOp, kwInput, kwResult, nResearch, nCreate>>
compVars == <<competitors, compOp, compInput, compResult, nGenerated, nAnalyze,
              nCompCreate>>
fnVars == <<fnPc, fnArgs, fnResult>>
opVars == <<suggestions, op, opInput, opResult, nOps>>

(***************************************************************************)
(* Bounds.                                                                 *)
(***************************************************************************)
MaxSeedLen == 3      \* atoms in a seed keyword of the variant generator runs
MaxResearch == 2     \* performKeywordResearch calls in one behaviour
MaxCreate == 1       \* createKeyword calls in one behaviour
StreamPeriod == 2    \* period of a random stream
MaxAnalyze == 2      \* performCompetitorAnalysis calls in one behaviour
MaxCompCreate == 1   \* createCompetitor calls in one behaviour

(***************************************************************************)
(* Strings.                                                                *)
(***************************************************************************)
SP == " "
UserAtoms == {"seo", "tools"}

AtomLen(a) ==
    CASE a = SP -> 1
      [] a = "seo" -> 3
      [] a = "tools" -> 5
      [] a = "guide" -> 5
      [] a = "tips" -> 4
      [] a = "best" -> 4
      [] a = "how" -> 3
      [] a = "to" -> 2
      [] a = "tutorial" -> 8
      [] a = "review" -> 6
      [] a = "comparison" -> 10
      [] a = "top" -> 3
      [] a = "benefits" -> 8
      [] a = "cost" -> 4
      [] a = "SEO" -> 3
      [] a = "0123456789" -> 10
      [] a = "0" -> 1
      [] a = "The Complete Guide to " -> 22
      [] a = ": Everything You Need to Know" -> 29
      [] a = ": Analysis, Insights, and Best Practices for 2024" -> 49
      [] a = "Step-by-Step Guide to " -> 22
      [] a = ": From Beginner to Expert" -> 25
      [] a = "Learn " -> 6
      [] a = ": Hands-On Tutorial with Examples" -> 33
      [] a = " Review: Features, Pricing, and Is It Worth It?" -> 47
      [] a = "Discover everything you need to know about " -> 43
      [] a = ". Learn best practices, tips, and expert insights in this comprehensive guide." -> 78
      [] a = "In-depth analysis of " -> 21
      [] a = " with expert insights, research findings, and practical implications for your business." -> 87
      [] a = "Complete step-by-step guide to " -> 31
      [] a = ". Learn from basics to advanced techniques with practical examples and best practices." -> 86
      [] a = " with our hands-on tutorial. Follow along with code examples and detailed explanations." -> 87
      [] a = "Honest review of " -> 17
      [] a = ". Pros, cons, features, pricing, and comparisons to help you make an informed decision." -> 87

RECURSIVE StrLen(_)
StrLen(s) == IF s = <<>> THEN 0 ELSE AtomLen(Head(s)) + StrLen(Tail(s))

RECURSIVE Split(_)
Split(s) ==
    IF \A i \in 1..Len(s) : s[i] # SP
    THEN <<s>>
    ELSE LET i == CHOOSE j \in 1..Len(s) :
                      s[j] = SP /\ \A k \in 1..(j - 1) : s[k] # SP
         IN  <<SubSeq(s, 1, i - 1)>> \o Split(SubSeq(s, i + 1, Len(s)))

RECURSIVE Join(_)
Join(ws) ==
    IF ws = <<>> THEN <<>>
    ELSE IF Len(ws) = 1 THEN ws[1]
    ELSE ws[1] \o <<SP>> \o Join(Tail(ws))

Reverse(ws) == [i \in 1..Len(ws) |-> ws[Len(ws) + 1 - i]]

DropLast(ws) == SubSeq(ws, 1, Len(ws) - 1)

RECURSIVE Dedup(_)
Dedup(q) ==
    IF q = <<>> THEN <<>>
    ELSE LET init == Dedup(SubSeq(q, 1, Len(q) - 1))
             last == q[Len(q)]
         IN  IF \E i \in 1..Len(init) : init[i] = last
             THEN init
             ELSE Append(init, last)

ToSet(q) == {q[i] : i \in 1..Len(q)}

(***************************************************************************)
(* generateKeywordVariations                                               *)
(***************************************************************************)
baseVariations(seedKeyword) ==
    << seedKeyword \o <<SP, "guide">>,
       seedKeyword \o <<SP, "tips">>,
       <<"best", SP>> \o seedKeyword,
       <<"how", SP, "to", SP>> \o seedKeyword,
       seedKeyword \o <<SP, "tutorial">>,
       seedKeyword \o <<SP, "review">>,
       seedKeyword \o <<SP, "comparison">>,
       <<"top", SP>> \o seedKeyword,
       seedKeyword \o <<SP, "benefits">>,
       seedKeyword \o <<SP, "cost">> >>

\* words.reverse() reverses the array in place and returns it, so the
\* following words.slice(0, -1) drops the last element of the reversed array.
wordVariations(seedKeyword) ==
    LET words == Split(seedKeyword)
        reversed == Reverse(words)
    IN  IF Len(words) > 1
        THEN <<Join(reversed), Join(DropLast(reversed))>>
        ELSE <<>>

generateKeywordVariations(seedKeyword, includeRelated) ==
    LET variations ==
            IF includeRelated
            THEN <<seedKeyword>> \o baseVariations(seedKeyword)
                     \o wordVariations(seedKeyword)
            ELSE <<seedKeyword>>
    IN  Dedup(variations)

(***************************************************************************)
(* Math.random(): draw i of stream s. A level is the drawn number in       *)
(* [0, 1) times 10000.                                                     *)
(***************************************************************************)
Levels == <<0, 7501, 9999>>
NLevels == Len(Levels)
Streams == 0..(NLevels ^ StreamPeriod - 1)
Rand(s, i) == Levels[((s \div (NLevels ^ ((i - 1) % StreamPeriod))) % NLevels) + 1]

Min(a, b) == IF a < b THEN a ELSE b
Max(a, b) == IF a > b THEN a ELSE b

\* Math.round(x * 100) / 100 of a non-negative x held in thousandths.
Round2(milli) == ((milli + 5) \div 10) * 10

(***************************************************************************)
(* generateKeywordData(keyword, seedKeyword), drawing from stream s        *)
(* starting at draw k. Numbers with decimals are held in thousandths.      *)
(***************************************************************************)
commercialAtoms == {"best", "cost", "review", "comparison"}
isCommercial(keyword) == \E i \in 1..Len(keyword) : keyword[i] \in commercialAtoms

DrawsUsed(keyword, seedKeyword) == IF keyword = seedKeyword THEN 9 ELSE 10

competitionOf(difficulty) ==
    IF difficulty > 70000 THEN "high"
    ELSE IF difficulty > 40000 THEN "medium"
    ELSE "low"

generateKeywordData(keyword, seedKeyword, s, k) ==
    LET isSeed == keyword = seedKeyword
        d == IF isSeed THEN k ELSE k + 1    \* the draw of the volume factor
        baseVolume == IF isSeed THEN 10000
                      ELSE ((Rand(s, k) * 8000) \div 10000) + 1000
        search_volume == (baseVolume * (10000 + Rand(s, d))) \div 20000
        baseDifficulty == IF StrLen(keyword) > StrLen(seedKeyword) THEN 30 ELSE 60
        difficulty == Min(100000,
                          Max(5000, baseDifficulty * 1000 + (Rand(s, d + 1) - 5000) * 4))
        baseCpc == IF isCommercial(keyword) THEN 3500 ELSE 1200
        cpc == Round2(baseCpc + (Rand(s, d + 2) \div 5))
        competition == competitionOf(difficulty)
        trendData == [i \in 1..6 |-> (Rand(s, d + 2 + i) \div 100) + 50]
    IN  [keyword |-> keyword,
         search_volume |-> search_volume,
         difficulty |-> Round2(difficulty),
         cpc |-> cpc,
         competition |-> competition,
         trend_data |-> trendData]

(***************************************************************************)
(* The keywords table. difficulty and cpc are numeric(_, 2) columns: a     *)
(* number is written as text with two decimals (held in hundredths) and    *)
(* read back with parseFloat.                                              *)
(***************************************************************************)
NumericToText(milli) == (milli + 5) \div 10
ParseFloat(centi) == centi * 10

\* a slip: a table with a unique keyword column, which drops the second row
InsertKeyword_UniqueKeyword(store, v, t) ==
    IF \E i \in 1..Len(store) : store[i].keyword = v.keyword
    THEN store
    ELSE Append(store,
                [id |-> Len(store) + 1,
                 created_at |-> t,
                 keyword |-> v.keyword,
                 search_volume |-> v.search_volume,
                 difficulty |-> NumericToText(v.difficulty),
                 cpc |-> NumericToText(v.cpc),
                 competition |-> v.competition,
                 trend_data |-> v.trend_data])
InsertKeyword(store, v, t) ==
    Append(store,
           [id |-> Len(store) + 1,
            created_at |-> t,
            keyword |-> v.keyword,
            search_volume |-> v.search_volume,
            difficulty |-> NumericToText(v.difficulty),
            cpc |-> NumericToText(v.cpc),
            competition |-> v.competition,
            trend_data |-> v.trend_data])

\* { ...row, difficulty: parseFloat(row.difficulty), cpc: parseFloat(row.cpc) }
KeywordEntity(row) ==
    [row EXCEPT !.difficulty = ParseFloat(row.difficulty),
                !.cpc = ParseFloat(row.cpc)]

\* db.select().from(keywordsTable).where(eq(keyword, kw)): rows in table order
\* a slip: the lookup finds no row, whatever the table holds
SelectByKeyword_NoMatch(store, kw) == <<>>
RECURSIVE SelectByKeyword(_, _)
SelectByKeyword(store, kw) ==
    IF store = <<>> THEN <<>>
    ELSE LET rest == SelectByKeyword(Tail(store), kw)
         IN  IF Head(store).keyword = kw THEN <<Head(store)>> \o rest ELSE rest

(***************************************************************************)
(* performKeywordResearch                                                  *)
(***************************************************************************)
\* keywordVariations.map(generateKeywordData): variation j draws after j - 1
RECURSIVE MapKeywordData(_, _, _, _)
MapKeywordData(vars, seedKeyword, s, k) ==
    IF vars = <<>> THEN <<>>
    ELSE <<generateKeywordData(Head(vars), seedKeyword, s, k)>>
             \o MapKeywordData(Tail(vars), seedKeyword, s,
                               k + DrawsUsed(Head(vars), seedKeyword))

passesFilter(data, input) ==
    /\ data.search_volume >= input.min_search_volume
    /\ data.difficulty <= input.max_difficulty

RECURSIVE FilterData(_, _)
FilterData(q, input) ==
    IF q = <<>> THEN <<>>
    ELSE IF passesFilter(Head(q), input)
         THEN <<Head(q)>> \o FilterData(Tail(q), input)
         ELSE FilterData(Tail(q), input)

\* the for loop over keywordData: [store, out] after the remaining data
RECURSIVE ResearchLoop(_, _, _, _)
ResearchLoop(data, store, out, t) ==
    IF data = <<>> THEN [store |-> store, out |-> out]
    ELSE LET existing == SelectByKeyword(store, Head(data).keyword)
         IN  IF Len(existing) = 0
             THEN LET inserted == InsertKeyword(store, Head(data), t)
                  IN  ResearchLoop(Tail(data), inserted,
                                   Append(out, KeywordEntity(inserted[Len(inserted)])), t)
             ELSE ResearchLoop(Tail(data), store,
                               Append(out, KeywordEntity(existing[1])), t)

performKeywordResearch(store, input, s, t) ==
    LET keywordVariations ==
            generateKeywordVariations(input.seed_keyword, input.include_related)
        keywordData ==
            FilterData(MapKeywordData(keywordVariations, input.seed_keyword, s, 1), input)
    IN  ResearchLoop(keywordData, store, <<>>, t)

(***************************************************************************)
(* Inputs of the keyword operations.                                       *)
(***************************************************************************)
KwSeeds == {<<"seo">>, <<"seo", SP, "tools">>}
Thresholds == {<<0, 100000>>, <<7000, 100000>>, <<0, 50000>>}
ResearchInputs ==
    {[seed_keyword |-> sk, include_related |-> ir,
      min_search_volume |-> th[1], max_difficulty |-> th[2]] :
        sk \in KwSeeds, ir \in BOOLEAN, th \in Thresholds}
NoInput == [seed_keyword |-> <<>>, include_related |-> FALSE,
            min_search_volume |-> 0, max_difficulty |-> 0]
CreateKeywordInputs ==
    {[keyword |-> kw, search_volume |-> 100, difficulty |-> d, cpc |-> 1234,
      competition |-> "high", trend_data |-> <<>>] :
        kw \in {<<"seo">>, <<"tools">>}, d \in {85555}}

(***************************************************************************)
(* The keyword operations as actions.                                      *)
(***************************************************************************)
\* one performKeywordResearch call with an input of the given set
ResearchOver(inputs) ==
    /\ nResearch < MaxResearch
    /\ \E input \in inputs, s \in Streams :
         LET r == performKeywordResearch(keywords, input, s, now)
         IN  /\ keywords' = r.store
             /\ kwResult' = r.out
             /\ kwInput' = input
    /\ kwOp' = "research"
    /\ nResearch' = nResearch + 1
    /\ now' = now + 1
    /\ UNCHANGED <<nCreate, compVars, outlines, fnVars, opVars, calls>>

ResearchKeywords == ResearchOver(ResearchInputs)

CreateKeyword ==
    /\ nCreate < MaxCreate
    /\ \E input \in CreateKeywordInputs :
         LET inserted == InsertKeyword(keywords, input, now)
         IN  /\ keywords' = inserted
             /\ kwResult' = <<KeywordEntity(inserted[Len(inserted)])>>
    /\ kwOp' = "create"
    /\ nCreate' = nCreate + 1
    /\ now' = now + 1
    /\ UNCHANGED <<kwInput, nResearch, compVars, outlines, fnVars, opVars, calls>>

(***************************************************************************)
(* The competitors table and the mock generator of                         *)
(* performCompetitorAnalysis.                                              *)
(***************************************************************************)
domains == <<"wikipedia.org", "medium.com", "hubspot.com", "moz.com",
             "searchengineland.com", "backlinko.com", "ahrefs.com", "semrush.com",
             "neilpatel.com", "contentmarketinginstitute.com">>

\* domain.split('.')[0]
domainLabel(domain) ==
    CASE domain = "wikipedia.org" -> "wikipedia"
      [] domain = "medium.com" -> "medium"
      [] domain = "hubspot.com" -> "hubspot"
      [] domain = "moz.com" -> "moz"
      [] domain = "searchengineland.com" -> "searchengineland"
      [] domain = "backlinko.com" -> "backlinko"
      [] domain = "ahrefs.com" -> "ahrefs"
      [] domain = "semrush.com" -> "semrush"
      [] domain = "neilpatel.com" -> "neilpatel"
      [] domain = "contentmarketinginstitute.com" -> "contentmarketinginstitute"

\* keyword.toLowerCase().replace(/\s+/g, '-'): every run of spaces becomes
\* one "-" (the atoms of the model are lower case already)
RECURSIVE Slug(_)
Slug(s) ==
    IF s = <<>> THEN <<>>
    ELSE IF Head(s) = SP
         THEN IF Len(s) > 1 /\ s[2] = SP
              THEN Slug(Tail(s))
              ELSE <<"-">> \o Slug(Tail(s))
         ELSE <<Head(s)>> \o Slug(Tail(s))

\* Math.round(x) of a positive x held in thousandths, in thousandths
RoundInt(milli) == ((milli + 500) \div 1000) * 1000

\* one pass of the generation loop: the competitor of rank i + 1, drawing
\* variance, word_count and backlinks, in this order, from draw k on
mockCompetitor(input, i, s, k) ==
    LET domain == domains[i + 1]
        rankingPosition == i + 1
        baseAuthority == Max(95 - (rankingPosition * 8), 30) * 1000
        variance == Rand(s, k) - 5000
    IN  [domain |-> domain,
         title |-> input.target_keyword
                       \o <<SP, "-", SP, "Complete", SP, "Guide", SP, "|", SP,
                            domainLabel(domain)>>,
         url |-> <<"https://", domain, "/">> \o Slug(input.target_keyword),
         meta_description |-> <<"Learn", SP, "everything", SP, "about", SP>>
                                  \o input.target_keyword
                                  \o <<SP, "with", SP, "our", SP, "comprehensive", SP,
                                       "guide.">>,
         word_count |-> (Rand(s, k + 1) \div 5) + 1500,
         domain_authority |-> RoundInt(Max(baseAuthority + variance, 10000)),
         page_authority |-> RoundInt(Max((baseAuthority - 5000) + variance, 5000)),
         backlinks |-> (Rand(s, k + 2) \div 10) + (100 * (11 - rankingPosition)),
         ranking_position |-> rankingPosition,
         target_keyword |-> input.target_keyword,
         content_quality_score |->
             RoundInt(Max((90 - (rankingPosition * 3)) * 1000 + variance, 40000))]

\* a slip: the loop stops one short of the domain list
mockCompetitors_OneShort(input, s) ==
    [j \in 1..Min(input.limit, Len(domains) - 1) |->
        mockCompetitor(input, j - 1, s, 3 * (j - 1) + 1)]

\* for (let i = 0; i < Math.min(input.limit, domains.length); i++)
mockCompetitors(input, s) ==
    [j \in 1..Min(input.limit, Len(domains)) |->
        mockCompetitor(input, j - 1, s, 3 * (j - 1) + 1)]

InsertCompetitor(store, v, t) ==
    Append(store,
           [id |-> Len(store) + 1,
            domain |-> v.domain,
            title |-> v.title,
            url |-> v.url,
            meta_description |-> v.meta_description,
            word_count |-> v.word_count,
            domain_authority |-> NumericToText(v.domain_authority),
            page_authority |-> NumericToText(v.page_authority),
            backlinks |-> v.backlinks,
            ranking_position |-> v.ranking_position,
            target_keyword |-> v.target_keyword,
            content_quality_score |-> NumericToText(v.content_quality_score),
            analyzed_at |-> t])

RECURSIVE InsertCompetitors(_, _, _)
InsertCompetitors(store, vs, t) ==
    IF vs = <<>> THEN store
    ELSE InsertCompetitors(InsertCompetitor(store, Head(vs), t), Tail(vs), t)

CompetitorEntity(row) ==
    [row EXCEPT !.domain_authority = ParseFloat(row.domain_authority),
                !.page_authority = ParseFloat(row.page_authority),
                !.content_quality_score = ParseFloat(row.content_quality_score)]

\* where(eq(target_keyword, kw)): the matching rows in table order
RECURSIVE SelectByTarget(_, _)
SelectByTarget(store, kw) ==
    IF store = <<>> THEN <<>>
    ELSE LET rest == SelectByTarget(Tail(store), kw)
         IN  IF Head(store).target_keyword = kw THEN <<Head(store)>> \o rest ELSE rest

\* orderBy(ranking_position): ascending, rows of equal rank in table order
RECURSIVE InsertByRank(_, _)
InsertByRank(sorted, row) ==
    IF sorted = <<>> THEN <<row>>
    ELSE IF Head(sorted).ranking_position <= row.ranking_position
         THEN <<Head(sorted)>> \o InsertByRank(Tail(sorted), row)
         ELSE <<row>> \o sorted

RECURSIVE OrderByRank(_)
OrderByRank(rows) ==
    IF rows = <<>> THEN <<>>
    ELSE InsertByRank(OrderByRank(SubSeq(rows, 1, Len(rows) - 1)), rows[Len(rows)])

\* a slip: the select without its limit
Limit_Ignored(rows, n) == rows
\* limit(input.limit)
Limit(rows, n) == SubSeq(rows, 1, Min(n, Len(rows)))

MapEntity(rows) == [i \in 1..Len(rows) |-> CompetitorEntity(rows[i])]

(***************************************************************************)
(* performCompetitorAnalysis: [store, out, generated] of one call          *)
(***************************************************************************)
\* a slip: existing rows are returned only when they fill the limit
hasExistingData_FillsLimit(competitors_, input) == Len(competitors_) >= input.limit

\* if (competitors.length > 0)
hasExistingData(competitors_, input) == Len(competitors_) > 0

performCompetitorAnalysis(store, input, s, t) ==
    LET results == Limit(OrderByRank(SelectByTarget(store, input.target_keyword)),
                         input.limit)
        competitors_ == MapEntity(results)
        mock == mockCompetitors(input, s)
        inserted == InsertCompetitors(store, mock, t)
    IN  IF hasExistingData(competitors_, input)
        THEN [store |-> store, out |-> competitors_, generated |-> FALSE]
        ELSE IF Len(mock) > 0
             THEN [store |-> inserted,
                   out |-> MapEntity(SubSeq(inserted, Len(store) + 1, Len(inserted))),
                   generated |-> TRUE]
             ELSE [store |-> store, out |-> <<>>, generated |-> TRUE]

(***************************************************************************)
(* Inputs of the competitor operations.                                    *)
(***************************************************************************)
\* limits below, at and above the length of the domain list; the streams
\* that draw the lowest level, the highest level, and the two in turn
CompKeywords == {<<"seo">>, <<"seo", SP, "tools">>}
AnalysisLimits == {1, 2, Len(domains) - 1, Len(domains), Len(domains) + 1}
CompStreams == {0, 1, NLevels ^ StreamPeriod - 1}
AnalysisInputs ==
    {[target_keyword |-> kw, limit |-> l] : kw \in CompKeywords, l \in AnalysisLimits}
NoAnalysis == [target_keyword |-> <<>>, limit |-> 0]
CreateCompetitorInputs ==
    {[domain |-> "example.com",
      title |-> <<"seo">>,
      url |-> <<"https://", "example.com", "/">>,
      meta_description |-> <<>>,
      word_count |-> 900,
      domain_authority |-> 55555,
      page_authority |-> 44444,
      backlinks |-> 12,
      ranking_position |-> 5,
      target_keyword |-> kw,
      content_quality_score |-> 66666] : kw \in CompKeywords}

(***************************************************************************)
(* The competitor operations as actions.                                   *)
(***************************************************************************)
\* one performCompetitorAnalysis call with an input of the given set
AnalyzeOver(inputs) ==
    /\ nAnalyze < MaxAnalyze
    /\ \E input \in inputs, s \in CompStreams :
         LET r == performCompetitorAnalysis(competitors, input, s, now)
         IN  /\ competitors' = r.store
             /\ compResult' = r.out
             /\ compInput' = input
             /\ nGenerated' = IF r.generated THEN nGenerated + 1 ELSE nGenerated
    /\ compOp' = "analyze"
    /\ nAnalyze' = nAnalyze + 1
    /\ now' = now + 1
    /\ UNCHANGED <<nCompCreate, kwVars, outlines, fnVars, opVars, calls>>

AnalyzeCompetitors == AnalyzeOver(AnalysisInputs)

CreateCompetitor ==
    /\ nCompCreate < MaxCompCreate
    /\ \E input \in CreateCompetitorInputs :
         LET inserted == InsertCompetitor(competitors, input, now)
         IN  /\ competitors' = inserted
             /\ compResult' = <<CompetitorEntity(inserted[Len(inserted)])>>
    /\ compOp' = "create"
    /\ nCompCreate' = nCompCreate + 1
    /\ now' = now + 1
    /\ UNCHANGED <<compInput, nGenerated, nAnalyze, kwVars, outlines, fnVars, opVars, calls>>

CompIdle ==
    /\ competitors = <<>>
    /\ compOp = "none"
    /\ compInput = NoAnalysis
    /\ compResult = <<>>
    /\ nGenerated = 0
    /\ nAnalyze = 0
    /\ nCompCreate = 0

OutlineIdle == outlines = <<>>

OpIdle ==
    /\ suggestions = <<>>
    /\ op = "none"
    /\ opInput = <<>>
    /\ opResult = <<>>
    /\ nOps = 0

KwIdle ==
    /\ keywords = <<>>
    /\ kwOp = "none"
    /\ kwInput = NoInput
    /\ kwResult = <<>>
    /\ nResearch = 0
    /\ nCreate = 0

FnIdle ==
    /\ fnPc = "idle"
    /\ fnArgs = <<>>
    /\ fnResult = <<>>

\* no call of a concurrent client has started
Procs == {1, 2}
NoCall == [kind |-> "none", pc |-> "idle", input |-> <<>>, data |-> <<>>,
           seen |-> 0, out |-> <<>>, n |-> 0]
RaceIdle == calls = [p \in Procs |-> NoCall]

vars == <<kwVars, compVars, outlines, fnVars, opVars, now, calls>>

KwInit == KwIdle /\ CompIdle /\ OutlineIdle /\ OpIdle /\ RaceIdle /\ FnIdle /\ now = 1
KwNext == ResearchKeywords \/ CreateKeyword
SpecKw == KwInit /\ [][KwNext]_vars

CompInit == KwIdle /\ CompIdle /\ OutlineIdle /\ OpIdle /\ RaceIdle /\ FnIdle /\ now = 1
CompNext == AnalyzeCompetitors \/ CreateCompetitor
SpecComp == CompInit /\ [][CompNext]_vars

(***************************************************************************)
(* Runs of the pure functions: Init draws the arguments, the action        *)
(* applies the function.                                                   *)
(***************************************************************************)
SeedStrings ==
    UNION {[1..n -> UserAtoms \cup {SP}] : n \in 1..MaxSeedLen}

VariantsInit ==
    /\ KwIdle
    /\ CompIdle
    /\ OutlineIdle
    /\ OpIdle
    /\ RaceIdle
    /\ now = 1
    /\ fnPc = "ready"
    /\ fnArgs \in [seed : SeedStrings, include : BOOLEAN]
    /\ fnResult = <<>>

ApplyKeywordVariations ==
    /\ fnPc = "ready"
    /\ fnResult' = generateKeywordVariations(fnArgs.seed, fnArgs.include)
    /\ fnPc' = "done"
    /\ UNCHANGED <<fnArgs, kwVars, compVars, outlines, now, opVars, calls>>

SpecVariants == VariantsInit /\ [][ApplyKeywordVariations]_vars

MetricsKeywords ==
    UNION {ToSet(generateKeywordVariations(sk, TRUE)) : sk \in KwSeeds}

MetricsInit ==
    /\ KwIdle
    /\ CompIdle
    /\ OutlineIdle
    /\ OpIdle
    /\ RaceIdle
    /\ now = 1
    /\ fnPc = "ready"
    /\ fnArgs \in [keyword : MetricsKeywords, seed : KwSeeds,
                   s : Streams, k : 1..StreamPeriod]
    /\ fnResult = <<>>

ApplyKeywordData ==
    /\ fnPc = "ready"
    /\ fnResult' = generateKeywordData(fnArgs.keyword, fnArgs.seed, fnArgs.s, fnArgs.k)
    /\ fnPc' = "done"
    /\ UNCHANGED <<fnArgs, kwVars, compVars, outlines, now, opVars, calls>>

SpecMetrics == MetricsInit /\ [][ApplyKeywordData]_vars

\* String.toLowerCase() of one atom: the atoms that hold an upper-case letter
\* are listed, every other atom is its own lower case
LowerAtom(a) ==
    CASE a = "SEO" ->
             "seo"
      [] a = "Introduction and hook" ->
             "introduction and hook"
      [] a = "What is " ->
             "what is "
      [] a = "Benefits of " ->
             "benefits of "
      [] a = "How to implement " ->
             "how to implement "
      [] a = "Common mistakes to avoid" ->
             "common mistakes to avoid"
      [] a = "Best practices and tips" ->
             "best practices and tips"
      [] a = "Conclusion and next steps" ->
             "conclusion and next steps"
      [] a = "Executive summary" ->
             "executive summary"
      [] a = "Background and context" ->
             "background and context"
      [] a = "Key findings about " ->
             "key findings about "
      [] a = "Analysis and implications" ->
             "analysis and implications"
      [] a = "Case studies and examples" ->
             "case studies and examples"
      [] a = "Future outlook" ->
             "future outlook"
      [] a = "Conclusion" ->
             "conclusion"
      [] a = "Introduction to " ->
             "introduction to "
      [] a = "Prerequisites and requirements" ->
             "prerequisites and requirements"
      [] a = "Step 1: Getting started" ->
             "step 1: getting started"
      [] a = "Step 2: Core implementation" ->
             "step 2: core implementation"
      [] a = "Step 3: Advanced techniques" ->
             "step 3: advanced techniques"
      [] a = "Troubleshooting common issues" ->
             "troubleshooting common issues"
      [] a = "Resources and next steps" ->
             "resources and next steps"
      [] a = "What you'll learn" ->
             "what you'll learn"
      [] a = "Tools and setup required" ->
             "tools and setup required"
      [] a = "Step-by-step walkthrough" ->
             "step-by-step walkthrough"
      [] a = "Code examples and explanations" ->
             "code examples and explanations"
      [] a = "Testing and validation" ->
             "testing and validation"
      [] a = "Common pitfalls" ->
             "common pitfalls"
      [] a = "Summary and practice exercises" ->
             "summary and practice exercises"
      [] a = "Key features and specifications" ->
             "key features and specifications"
      [] a = "Pros and cons analysis" ->
             "pros and cons analysis"
      [] a = "Performance evaluation" ->
             "performance evaluation"
      [] a = "Comparison with alternatives" ->
             "comparison with alternatives"
      [] a = "Pricing and value assessment" ->
             "pricing and value assessment"
      [] a = "Final verdict and recommendations" ->
             "final verdict and recommendations"
      [] a = "The Complete Guide to " ->
             "the complete guide to "
      [] a = ": Everything You Need to Know" ->
             ": everything you need to know"
      [] a = ": Analysis, Insights, and Best Practices for 2024" ->
             ": analysis, insights, and best practices for 2024"
      [] a = "Step-by-Step Guide to " ->
             "step-by-step guide to "
      [] a = ": From Beginner to Expert" ->
             ": from beginner to expert"
      [] a = "Learn " ->
             "learn "
      [] a = ": Hands-On Tutorial with Examples" ->
             ": hands-on tutorial with examples"
      [] a = " Review: Features, Pricing, and Is It Worth It?" ->
             " review: features, pricing, and is it worth it?"
      [] a = "Discover everything you need to know about " ->
             "discover everything you need to know about "
      [] a = ". Learn best practices, tips, and expert insights in this comprehensive guide." ->
             ". learn best practices, tips, and expert insights in this comprehensive guide."
      [] a = "In-depth analysis of " ->
             "in-depth analysis of "
      [] a = "Complete step-by-step guide to " ->
             "complete step-by-step guide to "
      [] a = ". Learn from basics to advanced techniques with practical examples and best practices." ->
             ". learn from basics to advanced techniques with practical examples and best practices."
      [] a = " with our hands-on tutorial. Follow along with code examples and detailed explanations." ->
             " with our hands-on tutorial. follow along with code examples and detailed explanations."
      [] a = "Honest review of " ->
             "honest review of "
      [] a = ". Pros, cons, features, pricing, and comparisons to help you make an informed decision." ->
             ". pros, cons, features, pricing, and comparisons to help you make an informed decision."
      [] OTHER -> a

\* String.toLowerCase()
ToLowerCase(s) == [i \in 1..Len(s) |-> LowerAtom(s[i])]

\* String.includes(sub): sub occurs in s as a run of whole atoms
Includes(s, sub) ==
    \E i \in 0..(Len(s) - Len(sub)) : SubSeq(s, i + 1, i + Len(sub)) = sub

\* the value null of a nullable text column
Null == <<"<null>">>

\* a text of n characters without letters
Filler(n) ==
    [i \in 1..((n \div 10) + (n % 10)) |->
        IF i <= n \div 10 THEN "0123456789" ELSE "0"]

(***************************************************************************)
(* The outline template engine: CONTENT_TEMPLATES and                      *)
(* generateOutlineSuggestions. Text that no rule splits is held in chunks: *)
(* an atom may be a whole phrase.                                          *)
(***************************************************************************)
KW == "[keyword]"

CONTENT_TEMPLATES ==
    [blog_post |->
        [wordCountRange |-> <<800, 2000>>,
         readingTimeMultiplier |-> 40,
         sections |-> << <<"Introduction and hook">>,
                         <<"What is ", KW, "?">>,
                         <<"Benefits of ", KW>>,
                         <<"How to implement ", KW>>,
                         <<"Common mistakes to avoid">>,
                         <<"Best practices and tips">>,
                         <<"Conclusion and next steps">> >>],
     article |->
        [wordCountRange |-> <<1200, 3000>>,
         readingTimeMultiplier |-> 40,
         sections |-> << <<"Executive summary">>,
                         <<"Background and context">>,
                         <<"Key findings about ", KW>>,
                         <<"Analysis and implications">>,
                         <<"Case studies and examples">>,
                         <<"Future outlook">>,
                         <<"Conclusion">> >>],
     guide |->
        [wordCountRange |-> <<1500, 4000>>,
         readingTimeMultiplier |-> 35,
         sections |-> << <<"Introduction to ", KW>>,
                         <<"Prerequisites and requirements">>,
                         <<"Step 1: Getting started">>,
                         <<"Step 2: Core implementation">>,
                         <<"Step 3: Advanced techniques">>,
                         <<"Troubleshooting common issues">>,
                         <<"Resources and next steps">> >>],
     tutorial |->
        [wordCountRange |-> <<1000, 2500>>,
         readingTimeMultiplier |-> 30,
         sections |-> << <<"What you'll learn">>,
                         <<"Tools and setup required">>,
                         <<"Step-by-step walkthrough">>,
                         <<"Code examples and explanations">>,
                         <<"Testing and validation">>,
                         <<"Common pitfalls">>,
                         <<"Summary and practice exercises">> >>],
     review |->
        [wordCountRange |-> <<800, 1800>>,
         readingTimeMultiplier |-> 45,
         sections |-> << <<"Introduction to ", KW>>,
                         <<"Key features and specifications">>,
                         <<"Pros and cons analysis">>,
                         <<"Performance evaluation">>,
                         <<"Comparison with alternatives">>,
                         <<"Pricing and value assessment">>,
                         <<"Final verdict and recommendations">> >>]]

\* a slip: the list of content types misses the last template
validContentTypes_WithoutReview == <<"blog_post", "article", "guide", "tutorial">>

\* Object.keys(CONTENT_TEMPLATES)
validContentTypes == <<"blog_post", "article", "guide", "tutorial", "review">>

\* section.replace('[keyword]', targetKeyword): the first occurrence only
RECURSIVE ReplaceFirst(_, _)
ReplaceFirst(section, targetKeyword) ==
    IF section = <<>> THEN <<>>
    ELSE IF Head(section) = KW THEN targetKeyword \o Tail(section)
    ELSE <<Head(section)>> \o ReplaceFirst(Tail(section), targetKeyword)


\* JSON values: an array of items, an object of fields
JSONArray(items) == [kind |-> "array", items |-> items]
JSONObject(fields) == [kind |-> "object", fields |-> fields]

\* JSON.stringify(v): the text of a JSON value, kept as a constructor
JSONStringify(v) == <<"json", v>>

\* JSON.parse(text): a text that JSON.stringify wrote parses to its value,
\* any other text (the empty text included) throws
JSONParse(text) ==
    IF Len(text) = 2 /\ text[1] = "json"
    THEN [ok |-> TRUE, value |-> text[2]]
    ELSE [ok |-> FALSE, value |-> JSONArray(<<>>)]

generateSecondaryKeywords(targetKeyword, contentType) ==
    LET baseKeywords == << targetKeyword \o <<" guide">>,
                           targetKeyword \o <<" tips">>,
                           <<"how to ">> \o targetKeyword,
                           targetKeyword \o <<" benefits">> >>
        typeSpecificKeywords ==
            [blog_post |-> << targetKeyword \o <<" explained">>,
                              targetKeyword \o <<" examples">> >>,
             article |-> << targetKeyword \o <<" analysis">>,
                            targetKeyword \o <<" research">> >>,
             guide |-> << targetKeyword \o <<" tutorial">>,
                          targetKeyword \o <<" step by step">> >>,
             tutorial |-> << targetKeyword \o <<" walkthrough">>,
                             <<"learn ">> \o targetKeyword >>,
             review |-> << targetKeyword \o <<" comparison">>,
                           targetKeyword \o <<" evaluation">> >>]
    IN  SubSeq(baseKeywords, 1, 2) \o typeSpecificKeywords[contentType]

generateSEOSuggestions(targetKeyword, contentType) ==
    LET baseSuggestions ==
            << <<"Include \"">> \o targetKeyword
                   \o <<"\" in the title and first paragraph">>,
               <<"Use keyword variations naturally throughout the content">>,
               <<"Add internal links to related content">>,
               <<"Optimize images with alt text containing relevant keywords">>,
               <<"Use header tags (H1, H2, H3) to structure content">> >>
        typeSpecificSuggestions ==
            [blog_post |->
                << <<"Include a compelling meta description under 160 characters">>,
                   <<"Add social sharing buttons to increase engagement">> >>,
             article |->
                << <<"Include data and statistics to support claims">>,
                   <<"Add author bio and credentials for authority">> >>,
             guide |->
                << <<"Create a table of contents for easy navigation">>,
                   <<"Include downloadable resources or checklists">> >>,
             tutorial |->
                << <<"Add code snippets with proper syntax highlighting">>,
                   <<"Include screenshots or video demonstrations">> >>,
             review |->
                << <<"Include product images and specifications">>,
                   <<"Add comparison tables with competitors">> >>]
    IN  baseSuggestions \o typeSpecificSuggestions[contentType]

\* a slip: one description for every keyword
generateMetaDescription_Generic(targetKeyword, contentType) ==
    <<"Discover everything you need to know about ">>
        \o <<". Learn best practices, tips, and expert insights in this comprehensive guide.">>
generateMetaDescription(targetKeyword, contentType) ==
    LET descriptions ==
            [blog_post |->
                <<"Discover everything you need to know about ">> \o targetKeyword
                    \o <<". Learn best practices, tips, and expert insights in this comprehensive guide.">>,
             article |->
                <<"In-depth analysis of ">> \o targetKeyword
                    \o <<" with expert insights, research findings, and practical implications for your business.">>,
             guide |->
                <<"Complete step-by-step guide to ">> \o targetKeyword
                    \o <<". Learn from basics to advanced techniques with practical examples and best practices.">>,
             tutorial |->
                <<"Learn ">> \o targetKeyword
                    \o <<" with our hands-on tutorial. Follow along with code examples and detailed explanations.">>,
             review |->
                <<"Honest review of ">> \o targetKeyword
                    \o <<". Pros, cons, features, pricing, and comparisons to help you make an informed decision.">>]
    IN  descriptions[contentType]

titleTemplates(targetKeyword) ==
    [blog_post |-> <<"The Complete Guide to ">> \o targetKeyword
                       \o <<": Everything You Need to Know">>,
     article |-> targetKeyword
                     \o <<": Analysis, Insights, and Best Practices for 2024">>,
     guide |-> <<"Step-by-Step Guide to ">> \o targetKeyword
                   \o <<": From Beginner to Expert">>,
     tutorial |-> <<"Learn ">> \o targetKeyword
                      \o <<": Hands-On Tutorial with Examples">>,
     review |-> targetKeyword
                    \o <<" Review: Features, Pricing, and Is It Worth It?">>]

\* a slip: the draw is scaled by the upper end, not by the width
wordCountTargetOf_ScaledByMax(range, level) ==
    ((level * range[2]) \div 10000) + range[1]

\* Math.floor(Math.random() * (range[1] - range[0]) + range[0])
wordCountTargetOf(range, level) ==
    ((level * (range[2] - range[1])) \div 10000) + range[1]

\* a slip: the quotient is rounded down
estimatedReadingTimeOf_RoundedDown(wordCountTarget, multiplier) ==
    (wordCountTarget * multiplier) \div 2000

\* Math.ceil(wordCountTarget / (200 / readingTimeMultiplier)), the
\* multiplier held in tenths: the double division gives the exact ceiling
\* for every word count of every template range
estimatedReadingTimeOf(wordCountTarget, multiplier) ==
    (wordCountTarget * multiplier + 1999) \div 2000

\* a slip: the advanced rule is tested before the beginner rule
difficultyLevelOf_AdvancedFirst(contentType, wordCountTarget) ==
    IF contentType = "guide" \/ contentType = "tutorial" \/ wordCountTarget > 2500
    THEN "advanced"
    ELSE IF contentType = "blog_post" \/ wordCountTarget < 1200
         THEN "beginner"
         ELSE "intermediate"

difficultyLevelOf(contentType, wordCountTarget) ==
    IF contentType = "blog_post" \/ wordCountTarget < 1200
    THEN "beginner"
    ELSE IF contentType = "guide" \/ contentType = "tutorial" \/ wordCountTarget > 2500
         THEN "advanced"
         ELSE "intermediate"

outlineStructureOf(targetKeyword, template) ==
    [introduction |->
        [title |-> <<"Introduction">>,
         subsections |-> << <<"Hook and attention grabber">>,
                            <<"Overview of ">> \o targetKeyword,
                            <<"What readers will learn">> >>],
     mainSections |->
        [i \in 1..Len(template.sections) |->
            [title |-> ReplaceFirst(template.sections[i], targetKeyword),
             subsections |->
                SubSeq(<< <<"Key points about ">> \o ToLowerCase(template.sections[i]),
                          <<"Examples and case studies">>,
                          <<"Practical applications">> >>, 1, 2)]],
     conclusion |->
        [title |-> <<"Conclusion">>,
         subsections |-> << <<"Summary of key points">>,
                            <<"Call to action">>,
                            <<"Next steps">> >>]]

InsertOutline(store, v, t) ==
    Append(store, [id |-> Len(store) + 1,
                   title |-> v.title,
                   target_keyword |-> v.target_keyword,
                   secondary_keywords |-> v.secondary_keywords,
                   meta_description |-> v.meta_description,
                   word_count_target |-> v.word_count_target,
                   outline_structure |-> v.outline_structure,
                   seo_suggestions |-> v.seo_suggestions,
                   content_type |-> v.content_type,
                   difficulty_level |-> v.difficulty_level,
                   estimated_reading_time |-> v.estimated_reading_time,
                   created_at |-> t,
                   updated_at |-> t])

\* validContentTypes.join(', ')
JoinComma(ws) ==
    [i \in 1..(2 * Len(ws) - 1) |-> IF i % 2 = 1 THEN ws[(i + 1) \div 2] ELSE ", "]

\* [ok, store, out] of one call: out is the returned outline, or the message
\* of the error thrown
generateOutlineSuggestions(store, targetKeyword, contentType, level, t) ==
    IF contentType \notin ToSet(validContentTypes)
    THEN [ok |-> FALSE,
          store |-> store,
          out |-> <<"Invalid content type. Must be one of: ">>
                      \o JoinComma(validContentTypes)]
    ELSE LET template == CONTENT_TEMPLATES[contentType]
             wordCountTarget == wordCountTargetOf(template.wordCountRange, level)
             inserted ==
                 InsertOutline(store,
                     [title |-> titleTemplates(targetKeyword)[contentType],
                      target_keyword |-> targetKeyword,
                      secondary_keywords |->
                          JSONStringify(JSONArray(
                              generateSecondaryKeywords(targetKeyword, contentType))),
                      meta_description |->
                          generateMetaDescription(targetKeyword, contentType),
                      word_count_target |-> wordCountTarget,
                      outline_structure |->
                          JSONStringify(JSONObject(
                              outlineStructureOf(targetKeyword, template))),
                      seo_suggestions |->
                          JSONStringify(JSONArray(
                              generateSEOSuggestions(targetKeyword, contentType))),
                      content_type |-> contentType,
                      difficulty_level |->
                          difficultyLevelOf(contentType, wordCountTarget),
                      estimated_reading_time |->
                          estimatedReadingTimeOf(wordCountTarget,
                                                 template.readingTimeMultiplier)],
                     t)
         IN  [ok |-> TRUE, store |-> inserted, out |-> inserted[Len(inserted)]]

(***************************************************************************)
(* Runs of generateOutlineSuggestions on an empty table. The draw of       *)
(* Math.random() ranges over every level; level 10000 stands for a draw so *)
(* close to 1 that the double sum rounds up to the end of the range.       *)
(***************************************************************************)
OutlineLevels == 0..10000
OutlineKeywords == {<<"seo">>}
ContentTypeInputs == ToSet(validContentTypes) \cup {"podcast"}

OutlineInit ==
    /\ KwIdle
    /\ CompIdle
    /\ OutlineIdle
    /\ OpIdle
    /\ RaceIdle
    /\ now = 1
    /\ fnPc = "ready"
    /\ fnArgs \in [targetKeyword : OutlineKeywords, contentType : ContentTypeInputs,
                   level : OutlineLevels]
    /\ fnResult = <<>>

GenerateOutline ==
    /\ fnPc = "ready"
    /\ LET r == generateOutlineSuggestions(outlines, fnArgs.targetKeyword,
                                           fnArgs.contentType, fnArgs.level, now)
       IN  /\ outlines' = r.store
           /\ fnResult' = r.out
           /\ fnPc' = IF r.ok THEN "done" ELSE "failed"
    /\ now' = now + 1
    /\ UNCHANGED <<fnArgs, kwVars, compVars, opVars, calls>>

SpecOutline == OutlineInit /\ [][GenerateOutline]_vars

(***************************************************************************)
(* The optimization rule engine: generateOptimizationSuggestions and its   *)
(* seven rule groups. impact_score is held in thousandths like every       *)
(* number with decimals.                                                   *)
(***************************************************************************)
\* `${n}`
NumText(n) == ToString(n)

\* a slip: a title of exactly 60 characters counts as too long
titleTooLong_AtLimit(title) == StrLen(title) >= 60

\* title.length > 60
titleTooLong(title) == StrLen(title) > 60

generateTitleSuggestions(outline) ==
    LET title == outline.title
        targetKeyword == outline.target_keyword
        lengthRule ==
            IF titleTooLong(title)
            THEN << [content_outline_id |-> outline.id,
                     suggestion_type |-> "title",
                     priority |-> "high",
                     suggestion |-> <<"Title is too long for search results. Consider shortening to 50-60 characters.">>,
                     current_value |-> <<NumText(StrLen(title)), " characters">>,
                     recommended_value |-> <<"50-60 characters">>,
                     impact_score |-> 85000,
                     is_implemented |-> FALSE] >>
            ELSE IF StrLen(title) < 30
            THEN << [content_outline_id |-> outline.id,
                     suggestion_type |-> "title",
                     priority |-> "medium",
                     suggestion |-> <<"Title might be too short. Consider expanding to 30-60 characters for better SEO.">>,
                     current_value |-> <<NumText(StrLen(title)), " characters">>,
                     recommended_value |-> <<"30-60 characters">>,
                     impact_score |-> 70000,
                     is_implemented |-> FALSE] >>
            ELSE <<>>
        keywordRule ==
            IF ~Includes(ToLowerCase(title), ToLowerCase(targetKeyword))
            THEN << [content_outline_id |-> outline.id,
                     suggestion_type |-> "title",
                     priority |-> "high",
                     suggestion |-> <<"Include the target keyword in the title for better SEO ranking.">>,
                     current_value |-> title,
                     recommended_value |->
                         <<"Title with \"">> \o targetKeyword \o <<"\" included">>,
                     impact_score |-> 90000,
                     is_implemented |-> FALSE] >>
            ELSE <<>>
    IN  lengthRule \o keywordRule

\* !metaDescription: null and the empty text are both falsy
generateMetaDescriptionSuggestions(outline) ==
    LET metaDescription == outline.meta_description
        targetKeyword == outline.target_keyword
        lengthRule ==
            IF StrLen(metaDescription) > 160
            THEN << [content_outline_id |-> outline.id,
                     suggestion_type |-> "meta_description",
                     priority |-> "medium",
                     suggestion |-> <<"Meta description is too long and may be truncated in search results.">>,
                     current_value |-> <<NumText(StrLen(metaDescription)), " characters">>,
                     recommended_value |-> <<"150-160 characters">>,
                     impact_score |-> 65000,
                     is_implemented |-> FALSE] >>
            ELSE <<>>
        keywordRule ==
            IF ~Includes(ToLowerCase(metaDescription), ToLowerCase(targetKeyword))
            THEN << [content_outline_id |-> outline.id,
                     suggestion_type |-> "meta_description",
                     priority |-> "medium",
                     suggestion |-> <<"Include the target keyword in meta description for better relevance.">>,
                     current_value |-> metaDescription,
                     recommended_value |->
                         <<"Meta description with \"">> \o targetKeyword
                             \o <<"\" included">>,
                     impact_score |-> 75000,
                     is_implemented |-> FALSE] >>
            ELSE <<>>
    IN  IF metaDescription = Null \/ metaDescription = <<>>
        THEN << [content_outline_id |-> outline.id,
                 suggestion_type |-> "meta_description",
                 priority |-> "high",
                 suggestion |-> <<"Add a meta description to improve search result click-through rates.">>,
                 current_value |-> Null,
                 recommended_value |->
                     <<"150-160 character description including \"">>
                         \o targetKeyword \o <<"\"">>,
                 impact_score |-> 80000,
                 is_implemented |-> FALSE] >>
        ELSE lengthRule \o keywordRule

\* JSON.parse(outline.outline_structure || '{}'): the empty text is falsy and
\* '{}' is parsed in its place
generateHeadingSuggestions(outline) ==
    LET targetKeyword == outline.target_keyword
        text == IF outline.outline_structure = <<>>
                THEN JSONStringify(JSONObject(<<>>))
                ELSE outline.outline_structure
    IN  IF JSONParse(text).ok
        THEN << [content_outline_id |-> outline.id,
                 suggestion_type |-> "headings",
                 priority |-> "medium",
                 suggestion |-> <<"Use H1-H6 tags in hierarchical order and include target keyword in H1 and some H2 headings.">>,
                 current_value |-> <<"Current heading structure">>,
                 recommended_value |->
                     <<"Hierarchical headings with \"">> \o targetKeyword
                         \o <<"\" in main headings">>,
                 impact_score |-> 70000,
                 is_implemented |-> FALSE] >>
        ELSE << [content_outline_id |-> outline.id,
                 suggestion_type |-> "headings",
                 priority |-> "high",
                 suggestion |-> <<"Create a clear heading structure with H1-H6 tags including the target keyword.">>,
                 current_value |-> <<"Unstructured or missing headings">>,
                 recommended_value |->
                     <<"Structured headings with \"">> \o targetKeyword
                         \o <<"\" in H1">>,
                 impact_score |-> 85000,
                 is_implemented |-> FALSE] >>

generateInternalLinkingSuggestions(outline) ==
    << [content_outline_id |-> outline.id,
        suggestion_type |-> "internal_links",
        priority |-> "medium",
        suggestion |-> <<"Add 3-5 internal links to related content to improve site structure and user engagement.">>,
        current_value |-> <<"No internal linking strategy specified">>,
        recommended_value |-> <<"3-5 relevant internal links with descriptive anchor text">>,
        impact_score |-> 60000,
        is_implemented |-> FALSE] >>

generateImageSuggestions(outline) ==
    << [content_outline_id |-> outline.id,
        suggestion_type |-> "images",
        priority |-> "medium",
        suggestion |-> <<"Optimize all images with descriptive alt text, file names, and appropriate file sizes.">>,
        current_value |-> <<"No image optimization specified">>,
        recommended_value |->
            <<"Alt text including \"">> \o outline.target_keyword
                \o <<"\" where relevant, compressed images">>,
        impact_score |-> 55000,
        is_implemented |-> FALSE] >>

\* a slip: an empty array counts as a list of secondary keywords
hasSecondaryKeywords_EmptyArrayCounts(secondaryKeywords) ==
    /\ secondaryKeywords # Null
    /\ secondaryKeywords # <<>>
    /\ JSONParse(secondaryKeywords).ok
    /\ JSONParse(secondaryKeywords).value.kind = "array"

\* if (secondaryKeywords) { try { keywords = JSON.parse(secondaryKeywords);
\* if (Array.isArray(keywords) && keywords.length > 0) ... } catch {} }
hasSecondaryKeywords(secondaryKeywords) ==
    /\ secondaryKeywords # Null
    /\ secondaryKeywords # <<>>
    /\ JSONParse(secondaryKeywords).ok
    /\ JSONParse(secondaryKeywords).value.kind = "array"
    /\ Len(JSONParse(secondaryKeywords).value.items) > 0

generateKeywordDensitySuggestions(outline) ==
    LET targetKeyword == outline.target_keyword
        secondaryKeywords == outline.secondary_keywords
    IN  << [content_outline_id |-> outline.id,
            suggestion_type |-> "keyword_density",
            priority |-> "medium",
            suggestion |-> <<"Maintain target keyword density of 1-2% and naturally incorporate secondary keywords.">>,
            current_value |-> <<"Keyword density not optimized">>,
            recommended_value |->
                <<"\"">> \o targetKeyword
                    \o <<"\" at 1-2% density + secondary keywords naturally distributed">>,
            impact_score |-> 65000,
            is_implemented |-> FALSE] >>
        \o (IF hasSecondaryKeywords(secondaryKeywords)
            THEN << [content_outline_id |-> outline.id,
                     suggestion_type |-> "keyword_density",
                     priority |-> "low",
                     suggestion |-> <<"Use secondary keywords naturally throughout the content to capture related search queries.">>,
                     current_value |->
                         <<NumText(Len(JSONParse(secondaryKeywords).value.items)),
                           " secondary keywords identified">>,
                     recommended_value |-> <<"Natural integration of secondary keywords in subheadings and body text">>,
                     impact_score |-> 50000,
                     is_implemented |-> FALSE] >>
            ELSE <<>>)

generateReadabilitySuggestions(outline) ==
    LET wordCountTarget == outline.word_count_target
        difficultyLevel == outline.difficulty_level
        readabilityTarget ==
            IF difficultyLevel = "beginner" THEN "Grade 6-8 reading level"
            ELSE IF difficultyLevel = "advanced" THEN "Grade 10-12 reading level"
            ELSE "Grade 8-10 reading level"
    IN  << [content_outline_id |-> outline.id,
            suggestion_type |-> "readability",
            priority |-> "medium",
            suggestion |-> <<"Optimize content readability for ", difficultyLevel,
                             " level audience using short paragraphs, bullet points, and clear language.">>,
            current_value |-> <<"Target: ", difficultyLevel, " level content">>,
            recommended_value |->
                <<readabilityTarget,
                  ", short paragraphs (2-3 sentences), bullet points, subheadings every 200-300 words">>,
            impact_score |-> 60000,
            is_implemented |-> FALSE] >>
        \o (IF wordCountTarget < 300
            THEN << [content_outline_id |-> outline.id,
                     suggestion_type |-> "readability",
                     priority |-> "high",
                     suggestion |-> <<"Increase word count to at least 300 words for better search engine ranking.">>,
                     current_value |-> <<NumText(wordCountTarget), " words">>,
                     recommended_value |-> <<"At least 300-500 words for short content, 1000+ for comprehensive guides">>,
                     impact_score |-> 75000,
                     is_implemented |-> FALSE] >>
            ELSE <<>>)

\* the rows of the outline with this id
SelectOutline(store, id) ==
    SelectSeq(store, LAMBDA row : row.id = id)

\* `Content outline with id ${id} not found`
outlineNotFound(id) == <<"Content outline with id ", NumText(id), " not found">>

\* db.insert(optimizationSuggestionsTable).values(...).returning(): the
\* impact_score column is numeric(5, 2)
InsertSuggestion(store, v, t) ==
    Append(store, [id |-> Len(store) + 1,
                   content_outline_id |-> v.content_outline_id,
                   suggestion_type |-> v.suggestion_type,
                   priority |-> v.priority,
                   suggestion |-> v.suggestion,
                   current_value |-> v.current_value,
                   recommended_value |-> v.recommended_value,
                   impact_score |-> NumericToText(v.impact_score),
                   is_implemented |-> v.is_implemented,
                   created_at |-> t])

RECURSIVE InsertSuggestions(_, _, _)
InsertSuggestions(store, vs, t) ==
    IF vs = <<>> THEN store
    ELSE InsertSuggestions(InsertSuggestion(store, Head(vs), t), Tail(vs), t)

\* {...suggestion, impact_score: parseFloat(suggestion.impact_score)}
SuggestionEntity(row) == [row EXCEPT !.impact_score = ParseFloat(@)]

\* the seven rule groups in evaluation order
\* a slip: the readability rules run before the others
ruleGroups_ReadabilityFirst(outline) ==
    generateReadabilitySuggestions(outline)
        \o generateTitleSuggestions(outline)
        \o generateMetaDescriptionSuggestions(outline)
        \o generateHeadingSuggestions(outline)
        \o generateInternalLinkingSuggestions(outline)
        \o generateImageSuggestions(outline)
        \o generateKeywordDensitySuggestions(outline)
ruleGroups(outline) ==
    generateTitleSuggestions(outline)
        \o generateMetaDescriptionSuggestions(outline)
        \o generateHeadingSuggestions(outline)
        \o generateInternalLinkingSuggestions(outline)
        \o generateImageSuggestions(outline)
        \o generateKeywordDensitySuggestions(outline)
        \o generateReadabilitySuggestions(outline)

\* a slip: every row of the table is returned
insertedRows_WholeTable(store, inserted) == inserted

\* .returning(): the rows the insert added
insertedRows(store, inserted) == SubSeq(inserted, Len(store) + 1, Len(inserted))

\* suggestions.map(suggestion => ({...suggestion, impact_score:
\* suggestion.impact_score.toString(), is_implemented: false}))
batchToInsert(suggestions_) ==
    [i \in 1..Len(suggestions_) |-> [suggestions_[i] EXCEPT !.is_implemented = FALSE]]

\* [ok, store, out] of one call: out is the inserted batch, or the message of
\* the error thrown
generateOptimizationSuggestions(outlines_, store, contentOutlineId, t) ==
    LET contentOutlines == SelectOutline(outlines_, contentOutlineId)
    IN  IF Len(contentOutlines) = 0
        THEN [ok |-> FALSE, store |-> store, out |-> outlineNotFound(contentOutlineId)]
        ELSE LET inserted ==
                     InsertSuggestions(store, batchToInsert(ruleGroups(contentOutlines[1])), t)
                 returned == insertedRows(store, inserted)
             IN  [ok |-> TRUE,
                  store |-> inserted,
                  out |-> [i \in 1..Len(returned) |-> SuggestionEntity(returned[i])]]

\* a slip: the row is written before the outline is looked up
outlineExists_Unchecked(outlines_, id) == TRUE

\* contentOutline.length === 0 after the select by id
outlineExists(outlines_, id) == Len(SelectOutline(outlines_, id)) > 0

\* [ok, store, out] of one createOptimizationSuggestion call
createOptimizationSuggestion(outlines_, store, input, t) ==
    IF ~outlineExists(outlines_, input.content_outline_id)
    THEN [ok |-> FALSE, store |-> store,
          out |-> outlineNotFound(input.content_outline_id)]
    ELSE LET inserted == InsertSuggestion(store, input, t)
         IN  [ok |-> TRUE, store |-> inserted,
              out |-> SuggestionEntity(inserted[Len(inserted)])]

\* a slip: the flag is flipped, not set
newStatus_Toggled(row, isImplemented) == ~row.is_implemented

\* .set({is_implemented: isImplemented})
newStatus(row, isImplemented) == isImplemented

\* [store, isNull, out] of one updateSuggestionStatus call: out is the
\* updated row, isNull tells that null was returned
updateSuggestionStatus(store, suggestionId, isImplemented) ==
    LET updated ==
            [i \in 1..Len(store) |->
                IF store[i].id = suggestionId
                THEN [store[i] EXCEPT !.is_implemented = newStatus(store[i], isImplemented)]
                ELSE store[i]]
        result == SelectSeq(updated, LAMBDA row : row.id = suggestionId)
    IN  IF Len(result) = 0
        THEN [store |-> updated, isNull |-> TRUE, out |-> Null]
        ELSE [store |-> updated, isNull |-> FALSE, out |-> SuggestionEntity(result[1])]

\* [ok, isNull, out] of one getContentOutlineById call: the first row with
\* the id, or null when the select returns no row
getContentOutlineById_Raising(store, id) ==
    LET result == SelectOutline(store, id)
    IN  IF Len(result) = 0
        THEN [ok |-> FALSE, isNull |-> FALSE, out |-> outlineNotFound(id)]
        ELSE [ok |-> TRUE, isNull |-> FALSE, out |-> result[1]]
getContentOutlineById(store, id) ==
    LET result == SelectOutline(store, id)
    IN  IF Len(result) = 0
        THEN [ok |-> TRUE, isNull |-> TRUE, out |-> Null]
        ELSE [ok |-> TRUE, isNull |-> FALSE, out |-> result[1]]

\* the rows of one getOptimizationSuggestions call: the handler resolves to
\* the empty list without reading the table
getOptimizationSuggestions(store, contentOutlineId) == <<>>

\* db.insert(contentOutlinesTable).values(input).returning()
createContentOutline(store, input, t) ==
    LET inserted == InsertOutline(store, input, t)
    IN  [ok |-> TRUE, store |-> inserted, out |-> inserted[Len(inserted)]]

\* the fields updateContentOutline copies when the input provides them
updatableFields_WithoutMetaDescription ==
    {"title", "target_keyword", "secondary_keywords",
     "word_count_target", "outline_structure", "seo_suggestions", "content_type",
     "difficulty_level", "estimated_reading_time"}
updatableFields ==
    {"title", "target_keyword", "secondary_keywords", "meta_description",
     "word_count_target", "outline_structure", "seo_suggestions", "content_type",
     "difficulty_level", "estimated_reading_time"}

\* updateData.updated_at: every update stamps the row with the time of the
\* call, whatever else the input provides
refreshedAt_OnlyOnChange(row, input, t) ==
    IF DOMAIN input.set = {} THEN row.updated_at ELSE t
refreshedAt(row, input, t) == t

\* [ok, store, out] of one updateContentOutline call: input.set holds the
\* fields the caller provided
updateContentOutline(store, input, t) ==
    IF Len(SelectOutline(store, input.id)) = 0
    THEN [ok |-> FALSE, store |-> store, out |-> outlineNotFound(input.id)]
    ELSE LET updateData(row) ==
                 [f \in DOMAIN row |->
                     IF f = "updated_at" THEN refreshedAt(row, input, t)
                     ELSE IF f \in updatableFields /\ f \in DOMAIN input.set
                          THEN input.set[f]
                          ELSE row[f]]
             updated == [i \in 1..Len(store) |->
                            IF store[i].id = input.id THEN updateData(store[i])
                            ELSE store[i]]
         IN  [ok |-> TRUE, store |-> updated,
              out |-> SelectOutline(updated, input.id)[1]]

(***************************************************************************)
(* Inputs of the outline and suggestion operations. The target keyword is  *)
(* seo; the titles and meta descriptions sit on both sides of each length  *)
(* limit, with the keyword (in either case) or without it.                 *)
(***************************************************************************)
MaxOps == 4        \* outline and suggestion operations in one behaviour
MaxOutlines == 2   \* createContentOutline calls in one behaviour

\* an id no row has
UnknownId == 999

TitleLong == Filler(61)
TitleMax == <<"seo", SP>> \o Filler(56)
TitleMin == Filler(30)
TitleShort == <<"SEO", SP>> \o Filler(25)
MetaLong == Filler(161)
MetaMax == <<"SEO", SP>> \o Filler(156)
MetaLongWithKeyword == <<"seo", SP>> \o Filler(157)
Malformed == <<"not json">>

CreateOutlineInputs ==
    { [title |-> TitleLong,
       target_keyword |-> <<"seo">>,
       secondary_keywords |-> JSONStringify(JSONArray(<< <<"seo", SP, "tips">> >>)),
       meta_description |-> MetaLong,
       word_count_target |-> 299,
       outline_structure |-> Malformed,
       seo_suggestions |-> Null,
       content_type |-> "article",
       difficulty_level |-> "beginner",
       estimated_reading_time |-> 2],
      [title |-> TitleMax,
       target_keyword |-> <<"seo">>,
       secondary_keywords |-> Null,
       meta_description |-> MetaMax,
       word_count_target |-> 300,
       outline_structure |-> JSONStringify(JSONObject([h1 |-> <<"Title">>])),
       seo_suggestions |-> Null,
       content_type |-> "guide",
       difficulty_level |-> "intermediate",
       estimated_reading_time |-> 5],
      [title |-> TitleShort,
       target_keyword |-> <<"seo">>,
       secondary_keywords |-> JSONStringify(JSONArray(<<>>)),
       meta_description |-> Null,
       word_count_target |-> 1000,
       outline_structure |-> JSONStringify(JSONObject([h1 |-> <<"Title">>])),
       seo_suggestions |-> Null,
       content_type |-> "blog_post",
       difficulty_level |-> "advanced",
       estimated_reading_time |-> 5],
      [title |-> TitleMin,
       target_keyword |-> <<"seo">>,
       secondary_keywords |-> JSONStringify(JSONObject([seo |-> <<"tips">>])),
       meta_description |-> <<>>,
       word_count_target |-> 1000,
       outline_structure |-> JSONStringify(JSONArray(<<>>)),
       seo_suggestions |-> Null,
       content_type |-> "review",
       difficulty_level |-> "beginner",
       estimated_reading_time |-> 5] }

UpdateOutlineInputs ==
    { [id |-> 1, set |-> [outline_structure |-> <<>>,
                          secondary_keywords |-> Malformed]],
      [id |-> 1, set |-> [title |-> <<>>,
                          meta_description |-> MetaLongWithKeyword,
                          secondary_keywords |-> <<>>]],
      [id |-> 1, set |-> <<>>],
      [id |-> 2, set |-> [meta_description |-> Null,
                          word_count_target |-> 5000]],
      [id |-> UnknownId, set |-> [title |-> TitleMax]] }

CreateSuggestionInputs ==
    { [content_outline_id |-> id,
       suggestion_type |-> "title",
       priority |-> "low",
       suggestion |-> <<"Review the title">>,
       current_value |-> Null,
       recommended_value |-> Null,
       impact_score |-> 12345,
       is_implemented |-> TRUE] : id \in {1, UnknownId} }

OutlineIds == {1, 2, UnknownId}
SuggestionIds == {1, 2, UnknownId}

(***************************************************************************)
(* The outline and suggestion operations as actions.                       *)
(***************************************************************************)
CreateOutline ==
    /\ nOps < MaxOps
    /\ Len(outlines) < MaxOutlines
    /\ \E input \in CreateOutlineInputs :
         LET r == createContentOutline(outlines, input, now)
         IN  /\ outlines' = r.store
             /\ op' = "createOutline"
             /\ opInput' = input
             /\ opResult' = [ok |-> r.ok, isNull |-> FALSE, out |-> r.out]
    /\ nOps' = nOps + 1
    /\ now' = now + 1
    /\ UNCHANGED <<suggestions, kwVars, compVars, fnVars, calls>>

UpdateOutline ==
    /\ nOps < MaxOps
    /\ \E input \in UpdateOutlineInputs :
         LET r == updateContentOutline(outlines, input, now)
         IN  /\ outlines' = r.store
             /\ op' = "updateOutline"
             /\ opInput' = input
             /\ opResult' = [ok |-> r.ok, isNull |-> FALSE, out |-> r.out]
    /\ nOps' = nOps + 1
    /\ now' = now + 1
    /\ UNCHANGED <<suggestions, kwVars, compVars, fnVars, calls>>

GenerateSuggestions ==
    /\ nOps < MaxOps
    /\ \E id \in OutlineIds :
         LET r == generateOptimizationSuggestions(outlines, suggestions, id, now)
         IN  /\ suggestions' = r.store
             /\ op' = "generateSuggestions"
             /\ opInput' = id
             /\ opResult' = [ok |-> r.ok, isNull |-> FALSE, out |-> r.out]
    /\ nOps' = nOps + 1
    /\ now' = now + 1
    /\ UNCHANGED <<outlines, kwVars, compVars, fnVars, calls>>

CreateSuggestion ==
    /\ nOps < MaxOps
    /\ \E input \in CreateSuggestionInputs :
         LET r == createOptimizationSuggestion(outlines, suggestions, input, now)
         IN  /\ suggestions' = r.store
             /\ op' = "createSuggestion"
             /\ opInput' = input
             /\ opResult' = [ok |-> r.ok, isNull |-> FALSE, out |-> r.out]
    /\ nOps' = nOps + 1
    /\ now' = now + 1
    /\ UNCHANGED <<outlines, kwVars, compVars, fnVars, calls>>

SetSuggestionImplemented ==
    /\ nOps < MaxOps
    /\ \E id \in SuggestionIds, flag \in BOOLEAN :
         LET r == updateSuggestionStatus(suggestions, id, flag)
         IN  /\ suggestions' = r.store
             /\ op' = "setImplemented"
             /\ opInput' = [id |-> id, flag |-> flag]
             /\ opResult' = [ok |-> TRUE, isNull |-> r.isNull, out |-> r.out]
    /\ nOps' = nOps + 1
    /\ now' = now + 1
    /\ UNCHANGED <<outlines, kwVars, compVars, fnVars, calls>>

GetOutline ==
    /\ nOps < MaxOps
    /\ \E id \in OutlineIds :
         LET r == getContentOutlineById(outlines, id)
         IN  /\ op' = "getOutline"
             /\ opInput' = id
             /\ opResult' = [ok |-> r.ok, isNull |-> r.isNull, out |-> r.out]
    /\ nOps' = nOps + 1
    /\ now' = now + 1
    /\ UNCHANGED <<outlines, suggestions, kwVars, compVars, fnVars, calls>>

ListSuggestions ==
    /\ nOps < MaxOps
    /\ \E id \in OutlineIds :
         /\ op' = "listSuggestions"
         /\ opInput' = id
         /\ opResult' = [ok |-> TRUE, isNull |-> FALSE,
                         out |-> getOptimizationSuggestions(suggestions, id)]
    /\ nOps' = nOps + 1
    /\ now' = now + 1
    /\ UNCHANGED <<outlines, suggestions, kwVars, compVars, fnVars, calls>>

EngineInit == KwIdle /\ CompIdle /\ OutlineIdle /\ OpIdle /\ RaceIdle /\ FnIdle /\ now = 1
EngineNext ==
    \/ CreateOutline
    \/ UpdateOutline
    \/ GenerateSuggestions
    \/ CreateSuggestion
    \/ SetSuggestionImplemented
    \/ GetOutline
    \/ ListSuggestions
SpecEngine == EngineInit /\ [][EngineNext]_vars

(***************************************************************************)
(* All operations on the three tables together: any sequence of keyword,   *)
(* competitor, outline and suggestion operations up to a common length.    *)
(***************************************************************************)
MaxCoreOps == 3    \* operations of any kind in one behaviour
CoreOps == nResearch + nCreate + nAnalyze + nCompCreate + nOps
CoreResearchInputs ==
    {[seed_keyword |-> <<"seo">>, include_related |-> ir,
      min_search_volume |-> 0, max_difficulty |-> 100000] : ir \in BOOLEAN}
CoreAnalysisInputs ==
    {[target_keyword |-> <<"seo">>, limit |-> l] : l \in {1, 2}}
CoreInit == KwIdle /\ CompIdle /\ OutlineIdle /\ OpIdle /\ RaceIdle /\ FnIdle /\ now = 1
CoreNext ==
    /\ CoreOps < MaxCoreOps
    /\ \/ ResearchOver(CoreResearchInputs)
       \/ CreateKeyword
       \/ AnalyzeOver(CoreAnalysisInputs)
       \/ CreateCompetitor
       \/ EngineNext
SpecCore == CoreInit /\ [][CoreNext]_vars

(***************************************************************************)
(* The pipeline: an outline made by generateOutlineSuggestions, analysed   *)
(* by generateOptimizationSuggestions any number of times, and possibly    *)
(* edited through updateContentOutline in between.                         *)
(***************************************************************************)
PipelineKeywords == {<<"seo">>, <<"SEO", SP, "tools">>}
PipelineLevels == {0, 5000, 10000}
PipelineInit ==
    /\ KwIdle
    /\ CompIdle
    /\ OutlineIdle
    /\ OpIdle
    /\ RaceIdle
    /\ now = 1
    /\ fnPc = "ready"
    /\ fnArgs \in [targetKeyword : PipelineKeywords,
                   contentType : ToSet(validContentTypes),
                   level : PipelineLevels]
    /\ fnResult = <<>>
PipelineNext == GenerateOutline \/ UpdateOutline \/ GenerateSuggestions
SpecPipeline == PipelineInit /\ [][PipelineNext]_vars

(***************************************************************************)
(* Two clients calling performKeywordResearch and                          *)
(* performCompetitorAnalysis at the same time. A call runs up to its next  *)
(* await in one step: the select of the existence check is one step, the   *)
(* insert that follows it another, and the other client's steps may fall   *)
(* in between. calls[p].seen is the number of rows the table held when the *)
(* call's last select read it.                                             *)
(***************************************************************************)
MaxCallsEach == 2   \* calls of one client in one behaviour
RaceResearchInputs ==
    {[seed_keyword |-> <<"seo">>, include_related |-> FALSE,
      min_search_volume |-> 0, max_difficulty |-> 100000]}
RaceAnalysisInputs == {[target_keyword |-> <<"seo">>, limit |-> l] : l \in {1, 2}}
RaceStreams == {0, NLevels ^ StreamPeriod - 1}

\* pc of a research call with these data left: the loop goes on or ends
loopPc(data) == IF data = <<>> THEN "done" ELSE "check"

\* the synchronous head of performKeywordResearch: variations, data, filter
ResearchStart(p) ==
    /\ calls[p].pc \in {"idle", "done"}
    /\ calls[p].n < MaxCallsEach
    /\ \E input \in RaceResearchInputs, s \in RaceStreams :
         LET keywordVariations ==
                 generateKeywordVariations(input.seed_keyword, input.include_related)
             keywordData ==
                 FilterData(MapKeywordData(keywordVariations, input.seed_keyword, s, 1),
                            input)
         IN  calls' = [calls EXCEPT ![p] =
                          [kind |-> "research", pc |-> loopPc(keywordData),
                           input |-> input, data |-> keywordData, seen |-> 0,
                           out |-> <<>>, n |-> calls[p].n + 1]]
    /\ UNCHANGED <<kwVars, compVars, outlines, fnVars, opVars, now>>

\* await db.select()...where(eq(keywordsTable.keyword, data.keyword))
ResearchCheck(p) ==
    /\ calls[p].kind = "research"
    /\ calls[p].pc = "check"
    /\ LET data == calls[p].data
           existing == SelectByKeyword(keywords, Head(data).keyword)
       IN  calls' = [calls EXCEPT ![p] =
              IF Len(existing) = 0
              THEN [@ EXCEPT !.pc = "insert", !.seen = Len(keywords)]
              ELSE [@ EXCEPT !.pc = loopPc(Tail(data)),
                             !.seen = Len(keywords),
                             !.data = Tail(data),
                             !.out = Append(@, KeywordEntity(existing[1]))]]
    /\ UNCHANGED <<kwVars, compVars, outlines, fnVars, opVars, now>>

\* await db.insert(keywordsTable).values(...).returning()
ResearchInsert(p) ==
    /\ calls[p].kind = "research"
    /\ calls[p].pc = "insert"
    /\ LET data == calls[p].data
           inserted == InsertKeyword(keywords, Head(data), now)
       IN  /\ keywords' = inserted
           /\ calls' = [calls EXCEPT ![p] =
                  [@ EXCEPT !.pc = loopPc(Tail(data)),
                            !.data = Tail(data),
                            !.out = Append(@, KeywordEntity(inserted[Len(inserted)]))]]
    /\ now' = now + 1
    /\ UNCHANGED <<kwOp, kwInput, kwResult, nResearch, nCreate, compVars, outlines,
                   fnVars, opVars>>

AnalyzeStart(p) ==
    /\ calls[p].pc \in {"idle", "done"}
    /\ calls[p].n < MaxCallsEach
    /\ \E input \in RaceAnalysisInputs :
         calls' = [calls EXCEPT ![p] =
                      [kind |-> "analyze", pc |-> "check", input |-> input,
                       data |-> <<>>, seen |-> 0, out |-> <<>>,
                       n |-> calls[p].n + 1]]
    /\ UNCHANGED <<kwVars, compVars, outlines, fnVars, opVars, now>>

\* await db.select()...orderBy(ranking_position).limit(input.limit), and
\* the mock rows generated when it returns nothing
AnalyzeCheck(p) ==
    /\ calls[p].kind = "analyze"
    /\ calls[p].pc = "check"
    /\ LET input == calls[p].input
           results == Limit(OrderByRank(SelectByTarget(competitors, input.target_keyword)),
                            input.limit)
           competitors_ == MapEntity(results)
       IN  IF hasExistingData(competitors_, input)
           THEN calls' = [calls EXCEPT ![p] =
                            [@ EXCEPT !.pc = "done", !.seen = Len(competitors),
                                      !.out = competitors_]]
           ELSE \E s \in RaceStreams :
                  LET mock == mockCompetitors(input, s)
                  IN  calls' = [calls EXCEPT ![p] =
                                  [@ EXCEPT !.pc = IF Len(mock) > 0 THEN "insert"
                                                   ELSE "done",
                                            !.seen = Len(competitors),
                                            !.data = mock]]
    /\ UNCHANGED <<kwVars, compVars, outlines, fnVars, opVars, now>>

\* await db.insert(competitorsTable).values(insertValues).returning()
AnalyzeInsert(p) ==
    /\ calls[p].kind = "analyze"
    /\ calls[p].pc = "insert"
    /\ LET inserted == InsertCompetitors(competitors, calls[p].data, now)
       IN  /\ competitors' = inserted
           /\ calls' = [calls EXCEPT ![p] =
                  [@ EXCEPT !.pc = "done",
                            !.data = <<>>,
                            !.out = MapEntity(SubSeq(inserted, Len(competitors) + 1,
                                                     Len(inserted)))]]
    /\ now' = now + 1
    /\ UNCHANGED <<compOp, compInput, compResult, nGenerated, nAnalyze, nCompCreate,
                   kwVars, outlines, fnVars, opVars>>

RaceInit == KwIdle /\ CompIdle /\ OutlineIdle /\ OpIdle /\ RaceIdle /\ FnIdle /\ now = 1
RaceNext ==
    \E p \in Procs :
        \/ ResearchStart(p)
        \/ ResearchCheck(p)
        \/ ResearchInsert(p)
        \/ AnalyzeStart(p)
        \/ AnalyzeCheck(p)
        \/ AnalyzeInsert(p)
SpecRace == RaceInit /\ [][RaceNext]_vars

(***************************************************************************)
(* Claims about the keyword research orchestrator.                         *)
(***************************************************************************)
KeywordStrings(rows) == {rows[i].keyword : i \in 1..Len(rows)}

\* C1: a performKeywordResearch call that directly follows a call with the
\* identical input leaves the number of stored rows unchanged and returns
\* the same set of keyword strings as the first call.
C1_SecondCallIdempotent ==
    [][(/\ kwOp = "research"
        /\ nResearch' = nResearch + 1
        /\ kwInput' = kwInput)
       => (/\ Len(keywords') = Len(keywords)
           /\ KeywordStrings(kwResult') = KeywordStrings(kwResult))]_vars

\* C2: every row returned by performKeywordResearch, inserted or reused,
\* has search_volume >= min_search_volume and difficulty <= max_difficulty.
C2_ResultsMeetThresholds ==
    kwOp = "research" =>
        \A i \in 1..Len(kwResult) :
            /\ kwResult[i].search_volume >= kwInput.min_search_volume
            /\ kwResult[i].difficulty <= kwInput.max_difficulty

\* C3: no two stored keyword rows have the same keyword text.
C3_KeywordTextUnique ==
    \A i, j \in 1..Len(keywords) :
        keywords[i].keyword = keywords[j].keyword => i = j

\* C4: the competition tier returned by generateKeywordData agrees with the
\* returned (rounded) difficulty: high exactly when difficulty > 70, medium
\* exactly when 40 < difficulty <= 70, low otherwise.
C4_CompetitionMatchesDifficulty ==
    fnPc = "done" =>
        /\ fnResult.competition = "high" <=> fnResult.difficulty > 70000
        /\ fnResult.competition = "medium" <=>
               (fnResult.difficulty > 40000 /\ fnResult.difficulty <= 70000)
        /\ fnResult.competition = "low" <=> fnResult.difficulty <= 40000

\* C5: with include_related and a seed of more than one space-delimited
\* word the variant set contains the seed, the ten templated expansions, the
\* seed's words reversed and the seed without its last word; without
\* include_related the variant set is exactly {seed}.
C5_VariantSet ==
    fnPc = "done" =>
        LET seed == fnArgs.seed
            words == Split(seed)
        IN  /\ (fnArgs.include /\ Len(words) > 1) =>
                   ({seed, Join(Reverse(words)), Join(DropLast(words))}
                        \cup ToSet(baseVariations(seed))) \subseteq ToSet(fnResult)
            /\ ~fnArgs.include => fnResult = <<seed>>

(***************************************************************************)
(* Claims about the competitor analysis orchestrator.                      *)
(***************************************************************************)
HasRowsFor(store, kw) == \E i \in 1..Len(store) : store[i].target_keyword = kw

\* the step is a performCompetitorAnalysis call
AnalyzeStep == nAnalyze' = nAnalyze + 1

\* C6: when no competitor row exists for target_keyword, a
\* performCompetitorAnalysis call with limit L inserts and returns exactly
\* min(L, 10) rows for that keyword, the i-th with ranking_position i and the
\* i-th domain of the fixed list.
C6_FreshAnalysisGenerates ==
    [][(AnalyzeStep /\ ~HasRowsFor(competitors, compInput'.target_keyword))
       => LET n == IF compInput'.limit < 10 THEN compInput'.limit ELSE 10
          IN  /\ Len(compResult') = n
              /\ Len(competitors') = Len(competitors) + n
              /\ SubSeq(competitors', 1, Len(competitors)) = competitors
              /\ \A i \in 1..Len(compResult') :
                    /\ compResult'[i].ranking_position = i
                    /\ compResult'[i].domain = domains[i]
                    /\ compResult'[i].target_keyword = compInput'.target_keyword
                    /\ CompetitorEntity(competitors'[Len(competitors) + i])
                           = compResult'[i]]_vars

\* a fresh analysis with a limit above the number of domains has returned
\* ten generated rows while another keyword's rows were stored already
C6_Witness ==
    /\ compOp = "analyze"
    /\ compInput.limit > Len(domains)
    /\ Len(compResult) = Len(domains)
    /\ nGenerated = nAnalyze
    /\ Len(competitors) > Len(compResult)

\* C7: once a row exists for target_keyword, a performCompetitorAnalysis
\* call for it is a pure read: the table is unchanged, the generation branch
\* does not run, and every returned row is a stored row of that keyword.
C7_CacheHitIsPureRead ==
    [][(AnalyzeStep /\ HasRowsFor(competitors, compInput'.target_keyword))
       => /\ competitors' = competitors
          /\ nGenerated' = nGenerated
          /\ Len(compResult') > 0
          /\ \A i \in 1..Len(compResult') :
                \E j \in 1..Len(competitors) :
                    /\ competitors[j].target_keyword = compInput'.target_keyword
                    /\ CompetitorEntity(competitors[j]) = compResult'[i]]_vars

\* an analysis has returned stored rows of a keyword that holds both a row
\* saved by createCompetitor and rows generated by an earlier analysis
C7_Witness ==
    /\ compOp = "analyze"
    /\ nAnalyze = 2
    /\ nGenerated = 1
    /\ nCompCreate = 1
    /\ \E i \in 1..Len(compResult) : compResult[i].domain = "example.com"
    /\ \E i \in 1..Len(compResult) : compResult[i].domain = "wikipedia.org"

C9_ArticleIsIntermediate ==
    (fnPc = "done" /\ fnResult.content_type = "article")
        => fnResult.difficulty_level = "intermediate"

\* C10: the word_count_target of a generated outline lies within the range
\* of its content type: blog_post [800, 2000], article [1200, 3000], guide
\* [1500, 4000], tutorial [1000, 2500], review [800, 1800].
C10_WordCountInRange ==
    fnPc = "done" =>
        LET wc == fnResult.word_count_target
            ct == fnResult.content_type
        IN  /\ ct = "blog_post" => (800 <= wc /\ wc <= 2000)
            /\ ct = "article" => (1200 <= wc /\ wc <= 3000)
            /\ ct = "guide" => (1500 <= wc /\ wc <= 4000)
            /\ ct = "tutorial" => (1000 <= wc /\ wc <= 2500)
            /\ ct = "review" => (800 <= wc /\ wc <= 1800)
            /\ ct \in {"blog_post", "article", "guide", "tutorial", "review"}

\* a guide outline one word below the upper end of its range
C10_Witness ==
    /\ fnPc = "done"
    /\ fnResult.content_type = "guide"
    /\ fnResult.word_count_target = 3999

\* C11: the estimated_reading_time of a generated outline is the ceiling of
\* word_count_target * f / 200, f being 4 for blog_post and article, 3.5 for
\* guide, 3 for tutorial and 4.5 for review; for a guide it lies between 25
\* and 70 minutes.
C11_ReadingTime ==
    fnPc = "done" =>
        LET ct == fnResult.content_type
            wc == fnResult.word_count_target
            rt == fnResult.estimated_reading_time
            f10 == CASE ct = "blog_post" -> 40
                     [] ct = "article" -> 40
                     [] ct = "guide" -> 35
                     [] ct = "tutorial" -> 30
                     [] ct = "review" -> 45
        IN  /\ rt * 2000 >= wc * f10
            /\ (rt - 1) * 2000 < wc * f10
            /\ ct = "guide" => (25 <= rt /\ rt <= 70)

\* a guide outline whose quotient is a whole number of minutes (4000 words,
\* 70 minutes) and one whose quotient is not (1500 words, 27 minutes)
C11_Witness ==
    /\ fnPc = "done"
    /\ fnResult.content_type = "guide"
    /\ \/ (fnResult.word_count_target = 4000 /\ fnResult.estimated_reading_time = 70)
       \/ (fnResult.word_count_target = 1500 /\ fnResult.estimated_reading_time = 27)

\* the message holds the value v
NamesValue(message, v) == \E i \in 1..Len(message) : message[i] = v

\* C12: a generateOutlineSuggestions call whose contentType is not one of
\* blog_post, article, guide, tutorial, review fails with an error whose
\* message names each of the five allowed types, and inserts no outline; a
\* call with one of the five succeeds.
C12_InvalidTypeRejected ==
    [][fnPc = "ready" =>
        IF fnArgs.contentType \in {"blog_post", "article", "guide", "tutorial", "review"}
        THEN fnPc' = "done" /\ Len(outlines') = Len(outlines) + 1
        ELSE /\ fnPc' = "failed"
             /\ outlines' = outlines
             /\ fnResult'[1] = "Invalid content type. Must be one of: "
             /\ \A v \in {"blog_post", "article", "guide", "tutorial", "review"} :
                    NamesValue(fnResult', v)]_vars

\* a call with content type podcast has failed and the table is empty
C12_Witness ==
    /\ fnPc = "failed"
    /\ fnArgs.contentType = "podcast"
    /\ outlines = <<>>

\* C13: the message of a validation failure of generateOutlineSuggestions
\* includes the content type the caller supplied.
C13_MessageNamesOffendingValue ==
    fnPc = "failed" => NamesValue(fnResult, fnArgs.contentType)

(***************************************************************************)
(* Claims about the optimization rule engine and the status tracker.       *)
(***************************************************************************)
\* the step is an outline or suggestion operation
OpStep(name) == nOps' = nOps + 1 /\ op' = name

HasOutline(store, id) == \E i \in 1..Len(store) : store[i].id = id

\* the stored outline the last generateOptimizationSuggestions call analysed
AnalysedOutline == outlines[CHOOSE i \in 1..Len(outlines) : outlines[i].id = opInput]

\* the suggestions of one type in the returned batch
OfType(batch, type) == SelectSeq(batch, LAMBDA sg : sg.suggestion_type = type)

\* the number of suggestions of the batch with this priority and impact
CountOf(batch, priority, impact) ==
    Len(SelectSeq(batch, LAMBDA sg : sg.priority = priority /\ sg.impact_score = impact))

Generated == op = "generateSuggestions" /\ opResult.ok

\* C14: a generateOptimizationSuggestions or createOptimizationSuggestion
\* call whose content_outline_id matches no stored outline fails with a
\* not-found error and leaves both tables as they were.
C14_UnknownOutlineRejected ==
    [][\A name \in {"generateSuggestions", "createSuggestion"} :
        LET id == IF name = "generateSuggestions" THEN opInput'
                  ELSE opInput'.content_outline_id
        IN  (OpStep(name) /\ ~HasOutline(outlines, id))
                => /\ ~opResult'.ok
                   /\ opResult'.out[Len(opResult'.out)] = " not found"
                   /\ suggestions' = suggestions
                   /\ outlines' = outlines]_vars

\* a createOptimizationSuggestion call for an unknown outline has failed
\* while both tables hold rows
C14_Witness ==
    /\ op = "createSuggestion"
    /\ ~opResult.ok
    /\ opInput.content_outline_id = UnknownId
    /\ Len(outlines) > 0
    /\ Len(suggestions) > 0

\* C15: the title suggestions of a generated batch are: one high-priority
\* suggestion of impact 85 exactly when the title is longer than 60
\* characters, one medium-priority suggestion of impact 70 exactly when it is
\* shorter than 30, one high-priority suggestion of impact 90 exactly when
\* the target keyword is not a case-insensitive substring of the title, and
\* no other.
C15_TitleRules ==
    Generated =>
        LET title == AnalysedOutline.title
            batch == OfType(opResult.out, "title")
            tooLong == IF StrLen(title) > 60 THEN 1 ELSE 0
            tooShort == IF StrLen(title) < 30 THEN 1 ELSE 0
            noKeyword ==
                IF Includes(ToLowerCase(title), ToLowerCase(AnalysedOutline.target_keyword))
                THEN 0 ELSE 1
        IN  /\ CountOf(batch, "high", 85000) = tooLong
            /\ CountOf(batch, "medium", 70000) = tooShort
            /\ CountOf(batch, "high", 90000) = noKeyword
            /\ Len(batch) = tooLong + tooShort + noKeyword

\* a batch for a title of exactly 60 characters that holds the keyword: no
\* title suggestion
C15_Witness ==
    /\ Generated
    /\ StrLen(AnalysedOutline.title) = 60
    /\ OfType(opResult.out, "title") = <<>>

\* C16: the meta-description suggestions of a generated batch are: the
\* high-priority 'add a meta description' suggestion (impact 80,
\* current_value null) exactly when meta_description is null; and, when it is
\* not null, a medium suggestion of impact 65 exactly when it is longer than
\* 160 characters and a medium suggestion of impact 75 exactly when the
\* target keyword is not a case-insensitive substring of it.
C16_MetaDescriptionRules ==
    Generated =>
        LET meta == AnalysedOutline.meta_description
            batch == OfType(opResult.out, "meta_description")
        IN  IF meta = Null
            THEN /\ Len(batch) = 1
                 /\ batch[1].priority = "high"
                 /\ batch[1].impact_score = 80000
                 /\ batch[1].current_value = Null
            ELSE /\ CountOf(batch, "high", 80000) = 0
                 /\ CountOf(batch, "medium", 65000) = 1 <=> StrLen(meta) > 160
                 /\ CountOf(batch, "medium", 75000) = 1
                        <=> ~Includes(ToLowerCase(meta),
                                      ToLowerCase(AnalysedOutline.target_keyword))

\* C17: a generated batch holds exactly one headings suggestion: the
\* high-priority one of impact 85 when outline_structure does not parse as
\* JSON (the empty text included), the medium-priority one of impact 70 when
\* it parses.
C17_HeadingRule ==
    Generated =>
        LET batch == OfType(opResult.out, "headings")
        IN  /\ Len(batch) = 1
            /\ IF JSONParse(AnalysedOutline.outline_structure).ok
               THEN batch[1].priority = "medium" /\ batch[1].impact_score = 70000
               ELSE batch[1].priority = "high" /\ batch[1].impact_score = 85000

\* secondary_keywords parses as a non-empty JSON array
IsNonEmptyArrayText(text) ==
    /\ JSONParse(text).ok
    /\ JSONParse(text).value.kind = "array"
    /\ JSONParse(text).value.items # <<>>

\* C18: the keyword-density suggestions of a generated batch are the
\* medium-priority one of impact 65, followed by the low-priority one of
\* impact 50 exactly when secondary_keywords parses as a non-empty JSON
\* array; a null, non-array or unparsable secondary_keywords adds nothing
\* and the call succeeds.
C18_KeywordDensityRule ==
    /\ Generated =>
        LET batch == OfType(opResult.out, "keyword_density")
            extra == IsNonEmptyArrayText(AnalysedOutline.secondary_keywords)
        IN  /\ Len(batch) = IF extra THEN 2 ELSE 1
            /\ batch[1].priority = "medium" /\ batch[1].impact_score = 65000
            /\ extra => (batch[2].priority = "low" /\ batch[2].impact_score = 50000)
    /\ (op = "generateSuggestions" /\ HasOutline(outlines, opInput)) => opResult.ok

\* a batch for an outline whose secondary_keywords is malformed text written
\* through updateContentOutline: one keyword-density suggestion
C18_Witness ==
    /\ Generated
    /\ AnalysedOutline.secondary_keywords = Malformed
    /\ Len(OfType(opResult.out, "keyword_density")) = 1

\* C19: a successful generateOptimizationSuggestions(id) call appends to the
\* table exactly the rows it returns: the rows added are as many as the
\* returned batch, the i-th returned suggestion is the i-th added row, its
\* id is new, its content_outline_id is id and its is_implemented is false;
\* the rows stored before are untouched.
C19_BatchIsPersisted ==
    [][(OpStep("generateSuggestions") /\ opResult'.ok)
        => LET out == opResult'.out
               n == Len(suggestions)
           IN  /\ Len(suggestions') = n + Len(out)
               /\ SubSeq(suggestions', 1, n) = suggestions
               /\ \A i \in 1..Len(out) :
                     /\ out[i].id = suggestions'[n + i].id
                     /\ \A j \in 1..n : suggestions[j].id # out[i].id
                     /\ out[i] = [suggestions'[n + i] EXCEPT
                                     !.impact_score = out[i].impact_score]
                     /\ out[i].impact_score = 10 * suggestions'[n + i].impact_score
                     /\ out[i].content_outline_id = opInput'
                     /\ out[i].is_implemented = FALSE]_vars

\* a batch has been generated into a table that held rows before
C19_Witness ==
    /\ Generated
    /\ Len(opResult.out) > 0
    /\ Len(suggestions) > Len(opResult.out)

\* C20: an updateSuggestionStatus(id, flag) call on a stored suggestion sets
\* its is_implemented to flag and returns the updated row; every other field
\* of it, every other suggestion and the outlines are as before; a second
\* call with the same id and flag changes nothing and returns the same row.
C20_StatusUpdate ==
    [][(OpStep("setImplemented")
            /\ \E i \in 1..Len(suggestions) : suggestions[i].id = opInput'.id)
        => /\ Len(suggestions') = Len(suggestions)
           /\ \A i \in 1..Len(suggestions) :
                 suggestions'[i] =
                     IF suggestions[i].id = opInput'.id
                     THEN [suggestions[i] EXCEPT !.is_implemented = opInput'.flag]
                     ELSE suggestions[i]
           /\ ~opResult'.isNull
           /\ \E i \in 1..Len(suggestions') :
                 /\ suggestions'[i].id = opInput'.id
                 /\ opResult'.out = [suggestions'[i] EXCEPT
                                        !.impact_score = 10 * suggestions'[i].impact_score]
           /\ outlines' = outlines
           /\ (op = "setImplemented" /\ opInput = opInput')
                  => (suggestions' = suggestions /\ opResult' = opResult)]_vars

\* a suggestion stored as implemented has been set to not implemented while
\* the table holds other rows
C20_Witness ==
    /\ op = "setImplemented"
    /\ ~opResult.isNull
    /\ opInput.flag = FALSE
    /\ opResult.out.suggestion = <<"Review the title">>
    /\ opResult.out.is_implemented = FALSE
    /\ Len(suggestions) > 1

(***************************************************************************)
(* Claims about the outline store and the suggestion status tracker.       *)
(***************************************************************************)
HasSuggestion(store, id) == \E i \in 1..Len(store) : store[i].id = id

OutlineRow(store, id) == store[CHOOSE i \in 1..Len(store) : store[i].id = id]

\* C21: getContentOutlineById with an id no outline has, and
\* updateSuggestionStatus with an id no suggestion has, return null: the call
\* does not fail and both stores are left as they were.
C21_TolerantLookups ==
    [][/\ (OpStep("getOutline") /\ ~HasOutline(outlines, opInput'))
            => /\ opResult'.ok
               /\ opResult'.isNull
               /\ outlines' = outlines
               /\ suggestions' = suggestions
       /\ (OpStep("setImplemented") /\ ~HasSuggestion(suggestions, opInput'.id))
            => /\ opResult'.ok
               /\ opResult'.isNull
               /\ outlines' = outlines
               /\ suggestions' = suggestions]_vars

\* a lookup of the unknown id answered null while outlines and suggestions
\* are stored
C21_Witness ==
    /\ op = "getOutline"
    /\ opInput = UnknownId
    /\ opResult.isNull
    /\ Len(outlines) > 0
    /\ Len(suggestions) > 0

\* C22: a successful updateContentOutline sets exactly the provided fields
\* to the provided values (null included), keeps every other field but
\* updated_at (id, created_at and the derived difficulty_level and
\* estimated_reading_time among them), and changes no other outline and no
\* suggestion; with an unknown id it fails and the store is unchanged.
C22_UpdateFrame ==
    [][OpStep("updateOutline") =>
         LET input == opInput'
         IN  IF HasOutline(outlines, input.id)
             THEN /\ opResult'.ok
                  /\ Len(outlines') = Len(outlines)
                  /\ suggestions' = suggestions
                  /\ \A i \in 1..Len(outlines) :
                       IF outlines[i].id = input.id
                       THEN /\ outlines'[i].id = outlines[i].id
                            /\ outlines'[i].created_at = outlines[i].created_at
                            /\ \A f \in DOMAIN outlines[i] \ {"updated_at"} :
                                 outlines'[i][f] = IF f \in DOMAIN input.set
                                                   THEN input.set[f]
                                                   ELSE outlines[i][f]
                       ELSE outlines'[i] = outlines[i]
             ELSE /\ ~opResult'.ok
                  /\ outlines' = outlines
                  /\ suggestions' = suggestions]_vars

\* the second outline got a null meta description and a word count of 5000
\* while its reading time stayed at the stored 5 minutes and the first
\* outline stayed as it was created
C22_Witness ==
    /\ op = "updateOutline"
    /\ opResult.ok
    /\ opInput.id = 2
    /\ Len(outlines) = 2
    /\ outlines[2].meta_description = Null
    /\ outlines[2].word_count_target = 5000
    /\ outlines[2].estimated_reading_time = 5
    /\ outlines[1].updated_at = outlines[1].created_at

C25_ListedByOutline ==
    op = "listSuggestions" =>
        opResult.out =
            LET rows == SelectSeq(suggestions,
                                  LAMBDA row : row.content_outline_id = opInput)
            IN  [i \in 1..Len(rows) |-> SuggestionEntity(rows[i])]

(***************************************************************************)
(* Claims about the keyword and competitor rows under all operations.      *)
(***************************************************************************)
IsPrefix(old, new) == Len(new) >= Len(old) /\ SubSeq(new, 1, Len(old)) = old

\* C26: no operation changes or deletes a stored keyword or competitor row
\* (each table only grows at its end), and every row performKeywordResearch
\* returns for a keyword that was stored before the call is a row stored
\* before the call, with the stored metrics.
C26_RowsImmutable ==
    [][/\ IsPrefix(keywords, keywords')
       /\ IsPrefix(competitors, competitors')
       /\ (kwOp' = "research" /\ nResearch' = nResearch + 1) =>
            \A i \in 1..Len(kwResult') :
                (\E j \in 1..Len(keywords) : keywords[j].keyword = kwResult'[i].keyword)
                    => \E j \in 1..Len(keywords) : kwResult'[i] = KeywordEntity(keywords[j])]_vars

\* the seed was stored by createKeyword with a search volume of 100, which
\* the generator never draws for a seed; a later research for it returned
\* that row while a competitor row is stored as well
C26_Witness ==
    /\ kwOp = "research"
    /\ Len(kwResult) > 0
    /\ kwResult[1].id = 1
    /\ kwResult[1].search_volume = 100
    /\ kwResult[1].created_at < now - 1
    /\ Len(competitors) > 0

(***************************************************************************)
(* Claims about concurrent calls.                                          *)
(***************************************************************************)
ResearchInsertStep(p) ==
    calls[p].kind = "research" /\ calls[p].pc = "insert" /\ calls'[p].pc # "insert"

AnalyzeInsertStep(p) ==
    calls[p].kind = "analyze" /\ calls[p].pc = "insert" /\ calls'[p].pc # "insert"

\* C27: a call that found no row at its existence check inserts its rows
\* when it resumes, whatever the other call has stored since: the check
\* saw no row for the keyword, the call does not check again, and no
\* uniqueness constraint of the table drops the rows. So two identical
\* calls that both pass the check leave duplicate rows.
C27_CheckThenInsert ==
    [][\A p \in Procs :
         /\ ResearchInsertStep(p) =>
              LET kw == Head(calls[p].data).keyword
              IN  /\ Len(keywords') = Len(keywords) + 1
                  /\ keywords'[Len(keywords')].keyword = kw
                  /\ \A i \in 1..calls[p].seen : keywords[i].keyword # kw
         /\ AnalyzeInsertStep(p) =>
              /\ Len(competitors') = Len(competitors) + Len(calls[p].data)
              /\ \A i \in 1..calls[p].seen :
                   competitors[i].target_keyword # calls[p].input.target_keyword]_vars

\* both races have happened: two keyword rows with the same keyword text
\* and two competitor rows with the same target keyword and ranking position
C27_Witness ==
    /\ \E i, j \in 1..Len(keywords) :
         i < j /\ keywords[i].keyword = keywords[j].keyword
    /\ \E i, j \in 1..Len(competitors) :
         /\ i < j
         /\ competitors[i].target_keyword = competitors[j].target_keyword
         /\ competitors[i].ranking_position = competitors[j].ranking_position
    /\ \A p \in Procs : calls[p].pc = "done"

(***************************************************************************)
(* Claims about the cache hit of the competitor analysis.                  *)
(***************************************************************************)
RowsFor(store, kw) == {i \in 1..Len(store) : store[i].target_keyword = kw}

\* C28: with k >= 1 rows stored for the keyword, performCompetitorAnalysis
\* with limit L returns min(L, k) of them, pairwise different, in ascending
\* ranking_position, none ranked after a stored row it leaves out; it
\* generates nothing and the table is unchanged, also when k < L.
C28_CacheHitRespectsLimit ==
    [][(AnalyzeStep /\ HasRowsFor(competitors, compInput'.target_keyword))
       => LET stored == RowsFor(competitors, compInput'.target_keyword)
              k == Cardinality(stored)
              L == compInput'.limit
              out == compResult'
              picked == {j \in stored :
                            \E i \in 1..Len(out) : out[i] = CompetitorEntity(competitors[j])}
          IN  /\ Len(out) = IF k < L THEN k ELSE L
              /\ Cardinality(picked) = Len(out)
              /\ \A i \in 1..Len(out) : \E j \in stored :
                    out[i] = CompetitorEntity(competitors[j])
              /\ \A i, j \in 1..Len(out) :
                    i < j => out[i].ranking_position <= out[j].ranking_position
              /\ \A j \in stored \ picked : \A i \in 1..Len(out) :
                    out[i].ranking_position <= competitors[j].ranking_position
              /\ competitors' = competitors
              /\ nGenerated' = nGenerated]_vars

\* the only stored row of the keyword was generated by an analysis with
\* limit 1; a second analysis with a larger limit returned that one row
C28_Witness ==
    /\ compOp = "analyze"
    /\ nAnalyze = 2
    /\ nGenerated = 1
    /\ nCompCreate = 0
    /\ compInput.limit > 1
    /\ Len(competitors) = 1
    /\ Len(compResult) = 1
    /\ compResult[1].target_keyword = compInput.target_keyword

(***************************************************************************)
(* Claims about whole batches of the rule engine.                          *)
(***************************************************************************)
GroupOrder == <<"title", "meta_description", "headings", "internal_links", "images",
                "keyword_density", "readability">>

GroupIndex(type) == CHOOSE g \in 1..Len(GroupOrder) : GroupOrder[g] = type

\* C29: a generated batch lists its suggestions in the order title,
\* meta_description, headings, internal_links, images, keyword_density,
\* readability, with 0 to 2 title, 0 to 2 meta_description, one headings,
\* one internal_links, one images, 1 or 2 keyword_density and 1 or 2
\* readability suggestions, 5 to 11 in all; the second readability
\* suggestion (high, impact 75) is there exactly when word_count_target < 300.
C29_BatchShape ==
    Generated =>
        LET out == opResult.out
            n(type) == Len(OfType(out, type))
        IN  /\ \A i \in 1..Len(out) :
                 out[i].suggestion_type \in {GroupOrder[g] : g \in 1..Len(GroupOrder)}
            /\ \A i, j \in 1..Len(out) :
                 i < j => GroupIndex(out[i].suggestion_type)
                             <= GroupIndex(out[j].suggestion_type)
            /\ n("title") \in 0..2
            /\ n("meta_description") \in 0..2
            /\ n("headings") = 1
            /\ n("internal_links") = 1
            /\ n("images") = 1
            /\ n("keyword_density") \in 1..2
            /\ n("readability") \in 1..2
            /\ Len(out) \in 5..11
            /\ n("readability") = 2 <=> AnalysedOutline.word_count_target < 300
            /\ CountOf(OfType(out, "readability"), "high", 75000)
                 = n("readability") - 1

\* a batch of eleven suggestions, the last the high-priority readability
\* suggestion of an outline with a word count target of 299
C29_Witness ==
    /\ Generated
    /\ Len(opResult.out) = 11
    /\ AnalysedOutline.word_count_target = 299
    /\ opResult.out[11].suggestion_type = "readability"
    /\ opResult.out[11].priority = "high"
    /\ opResult.out[1].suggestion_type = "title"

(***************************************************************************)
(* Claims about generated outlines run through the rule engine.            *)
(***************************************************************************)
\* the analysed outline is as generateOutlineSuggestions stored it
NotUpdated(outline) == outline.updated_at = outline.created_at

\* a suggestion without the columns the database fills in
Content(sg) == [sg EXCEPT !.id = 0, !.created_at = 0]

\* the stored suggestions inserted at time t, as the handler returns them
BatchAt(t) ==
    LET rows == SelectSeq(suggestions, LAMBDA row : row.created_at = t)
    IN  [i \in 1..Len(rows) |-> Content(SuggestionEntity(rows[i]))]

\* C30: for an outline generateOutlineSuggestions made and nobody updated,
\* a batch holds no 'include keyword' title suggestion (high, 90), no 'add a
\* meta description' (high, 80) and no 'include keyword' meta suggestion
\* (medium, 75), no 'increase word count' (high, 75), the medium headings
\* suggestion (70) and the low-priority secondary-keyword suggestion (50);
\* every call stores its whole batch again, so n calls leave n equal batches.
C30_GeneratedOutlineBatches ==
    /\ []((Generated /\ NotUpdated(AnalysedOutline)) =>
            LET out == opResult.out
                headings == OfType(out, "headings")
            IN  /\ CountOf(OfType(out, "title"), "high", 90000) = 0
                /\ CountOf(OfType(out, "meta_description"), "high", 80000) = 0
                /\ CountOf(OfType(out, "meta_description"), "medium", 75000) = 0
                /\ CountOf(OfType(out, "readability"), "high", 75000) = 0
                /\ Len(headings) = 1
                /\ headings[1].priority = "medium"
                /\ headings[1].impact_score = 70000
                /\ CountOf(OfType(out, "keyword_density"), "low", 50000) = 1
                /\ \A i \in 1..Len(suggestions) :
                      BatchAt(suggestions[i].created_at)
                          = [j \in 1..Len(out) |-> Content(out[j])])
    /\ [][(OpStep("generateSuggestions") /\ opResult'.ok)
            => Len(suggestions') = Len(suggestions) + Len(opResult'.out)]_vars

\* the third call for a generated outline whose keyword is written in upper
\* case: three equal batches are stored
C30_Witness ==
    /\ Generated
    /\ nOps = 3
    /\ fnPc = "done"
    /\ NotUpdated(AnalysedOutline)
    /\ AnalysedOutline.target_keyword = <<"SEO", SP, "tools">>
    /\ Len(opResult.out) >= 5
    /\ Len(suggestions) = 3 * Len(opResult.out)

=============================================================================
